---- MODULE Spec2Model ----
(***************************************************************************)
(* Ensemble coordinator and online weight learning of win-go-1minserver.   *)
(*                                                                         *)
(* Numbers.  The program computes in IEEE doubles.  The model keeps every  *)
(* fractional quantity (weight, emaAccuracy, lr, reliability) as an        *)
(* integer count of 1/Scale (Scale = 10000, so weight 1.0 is 10000 and     *)
(* emaAlpha 0.05 is 500); a product of two such quantities is divided by   *)
(* Scale again.  Signal confidences are whole numbers in 0..100, as the    *)
(* decision carries them.  Thresholds on ratios (agreement > 0.75,         *)
(* overlap > 0.6, bias > 0.6) are compared as exact fractions.             *)
(***************************************************************************)
EXTENDS Integers, Sequences, FiniteSets, TLC

VARIABLES
    models,     \* ModelManager.models: the roster, a sequence of predictors
    round       \* the last ModelManager.predict call: its inputs and outcome

vars == <<models, round>>

----------------------------------------------------------------------------
(* Bounds of the model *)

\* the roster holds at most MaxModels predictors
MaxModels == 3
\* at most MaxLearnCalls learn calls in one behaviour of SpecLearn
MaxLearnCalls == 5
\* at most MaxManagerLearns credit assignments in one behaviour of SpecWeighted
MaxManagerLearns == 2

----------------------------------------------------------------------------
(* Fixed point *)

Scale == 100 * 100
Half == Scale \div 2

Max(a, b) == IF a >= b THEN a ELSE b
Min(a, b) == IF a <= b THEN a ELSE b

\* Math.round on the fraction num/den (den > 0): floor(num/den + 1/2)
Round(num, den) ==
    LET q == num \div den
        r == num % den
    IN  IF 2 * r >= den THEN q + 1 ELSE q

----------------------------------------------------------------------------
(* Predictor: KBTModel and AIModel *)

\* constructor defaults (the same in both classes)
lookback == 200
emaAlpha == 500
minWeight == 2000
maxWeight == 30000
decay == 9990

\* new KBTModel(id) / new AIModel(id)
NewPredictor(id, cls) ==
    [id |-> id, cls |-> cls, weight |-> Scale, history |-> <<>>,
     wins |-> 0, losses |-> 0, emaAccuracy |-> Half]

\* Math.pow(this.decay, lr) for decay = 0.999 and 0 < lr <= 10, by the series
\* exp(x) = 1 + x + x^2/2 at x = lr * ln(0.999) = -lr * 0.0010005; the
\* intermediate u counts 1e-8, the result counts 1/Scale rounded to nearest.
PowDecay(lr) ==
    LET u == (lr * 10005) \div 1000
        p == 100000000 - u + ((u \div 100) * (u \div 100)) \div 20000
    IN  Round(p, 10000)

\* the options argument of learn: absent, { lr: <number> }, or an object
\* whose lr is not of type number
NoOptions == [type |-> "absent", lr |-> 0]
LrOption(x) == [type |-> "number", lr |-> x]
BadLrOption == [type |-> "other", lr |-> 0]

\* typeof options.lr === 'number' ? Math.max(0.1, options.lr) : 1.0
LearnRate(options) ==
    IF options.type = "number" THEN Max(Scale \div 10, options.lr) ELSE Scale

InstantAccPercent(wins, total) ==
    IF total > 0 THEN (wins * 100 * Scale) \div total ELSE Half
\* total > 0 ? (this.wins / total) : 0.5
InstantAcc(wins, total) ==
    IF total > 0 THEN (wins * Scale) \div total ELSE Half

ClampWeightNoMax(raw) == Max(minWeight, raw)
\* Math.max(this.minWeight, Math.min(this.maxWeight, raw))
ClampWeight(raw) == Max(minWeight, Min(maxWeight, raw))

LearnStepPenalises(m, wasWin, lr) ==
    LET v == IF wasWin THEN 1 ELSE 0
        pushed == Append(m.history, v)
        hist == IF Len(pushed) > lookback THEN Tail(pushed) ELSE pushed
        wins == IF wasWin THEN m.wins + 1 ELSE m.wins
        losses == IF wasWin THEN m.losses ELSE m.losses + 1
        instantAcc == InstantAcc(wins, wins + losses)
        ema == (m.emaAccuracy * (Scale - emaAlpha) + instantAcc * emaAlpha)
                   \div Scale
        delta == (ema - Half) \div 2
        raw == (m.weight * PowDecay(lr)) \div Scale + (delta * lr) \div Scale
    IN  [m EXCEPT !.history = hist, !.wins = wins, !.losses = losses,
                  !.emaAccuracy = ema, !.weight = ClampWeight(raw)]
LearnStepDropsNewest(m, wasWin, lr) ==
    LET v == IF wasWin THEN 1 ELSE 0
        pushed == Append(m.history, v)
        hist == IF Len(pushed) > lookback THEN SubSeq(pushed, 1, lookback)
                ELSE pushed
        wins == IF wasWin THEN m.wins + 1 ELSE m.wins
        losses == IF wasWin THEN m.losses ELSE m.losses + 1
        instantAcc == InstantAcc(wins, wins + losses)
        ema == (m.emaAccuracy * (Scale - emaAlpha) + instantAcc * emaAlpha)
                   \div Scale
        delta == (ema - Half) \div 2
        raw == (m.weight * PowDecay(lr)) \div Scale
                   + ((Scale + delta) * lr) \div Scale
    IN  [m EXCEPT !.history = hist, !.wins = wins, !.losses = losses,
                  !.emaAccuracy = ema, !.weight = ClampWeight(raw)]
LearnStepStaleCounters(m, wasWin, lr) ==
    LET v == IF wasWin THEN 1 ELSE 0
        pushed == Append(m.history, v)
        hist == IF Len(pushed) > lookback THEN Tail(pushed) ELSE pushed
        wins == IF wasWin THEN m.wins + 1 ELSE m.wins
        losses == IF wasWin THEN m.losses ELSE m.losses + 1
        instantAcc == InstantAcc(m.wins, m.wins + m.losses)
        ema == (m.emaAccuracy * (Scale - emaAlpha) + instantAcc * emaAlpha)
                   \div Scale
        delta == (ema - Half) \div 2
        raw == (m.weight * PowDecay(lr)) \div Scale
                   + ((Scale + delta) * lr) \div Scale
    IN  [m EXCEPT !.history = hist, !.wins = wins, !.losses = losses,
                  !.emaAccuracy = ema, !.weight = ClampWeight(raw)]
\* The body shared by the two learn methods once lr is known.
LearnStep(m, wasWin, lr) ==
    LET v == IF wasWin THEN 1 ELSE 0
        pushed == Append(m.history, v)
        hist == IF Len(pushed) > lookback THEN Tail(pushed) ELSE pushed
        wins == IF wasWin THEN m.wins + 1 ELSE m.wins
        losses == IF wasWin THEN m.losses ELSE m.losses + 1
        total == wins + losses
        instantAcc == InstantAcc(wins, total)
        ema == (m.emaAccuracy * (Scale - emaAlpha) + instantAcc * emaAlpha)
                   \div Scale
        advantage == ema - Half
        delta == advantage \div 2
        raw == (m.weight * PowDecay(lr)) \div Scale
                   + ((Scale + delta) * lr) \div Scale
    IN  [m EXCEPT !.history = hist, !.wins = wins, !.losses = losses,
                  !.emaAccuracy = ema, !.weight = ClampWeight(raw)]

\* KBTModel.learn(wasWin, options = {})
KBTModel_learn(m, wasWin, options) == LearnStep(m, wasWin, LearnRate(options))

\* learn(wasWin) with the one parameter it declares: lr is 1.0
AIModel_learnOneParameter(m, wasWin, options) == LearnStep(m, wasWin, Scale)

\* AIModel.learn(wasWin): lr is read from arguments[1]
AIModel_learn(m, wasWin, options) ==
    LET isObject == options.type # "absent"
        lr == IF isObject /\ options.type = "number"
              THEN Max(Scale \div 10, options.lr) ELSE Scale
    IN  LearnStep(m, wasWin, lr)

\* m.learn(...): dispatch on the predictor's class
Predictor_learn(m, wasWin, options) ==
    IF m.cls = "KBTModel" THEN KBTModel_learn(m, wasWin, options)
    ELSE AIModel_learn(m, wasWin, options)

\* what learn returns: { wins, losses, weight, emaAccuracy } of the new state
LearnResult(m) ==
    [wins |-> m.wins, losses |-> m.losses, weight |-> m.weight,
     emaAccuracy |-> m.emaAccuracy]

----------------------------------------------------------------------------
(* ModelManager: roster *)

\* ids and classes a roster is drawn from; the constructor pushes the first two
PredictorPool ==
    << [id |-> "KBT", cls |-> "KBTModel"],
       [id |-> "AI_FLONZA", cls |-> "AIModel"],
       [id |-> "KBT_B", cls |-> "KBTModel"],
       [id |-> "AI_B", cls |-> "AIModel"],
       [id |-> "KBT_C", cls |-> "KBTModel"] >>

\* the roster of n predictors in their default state
Roster(n) == [i \in 1..n |-> NewPredictor(PredictorPool[i].id, PredictorPool[i].cls)]

\* new ModelManager(): models = [kbt, ai]
DefaultRoster == Roster(2)

TotalLearns(ms) ==
    LET RECURSIVE Sum(_)
        Sum(i) == IF i = 0 THEN 0 ELSE ms[i].wins + ms[i].losses + Sum(i - 1)
    IN  Sum(Len(ms))

----------------------------------------------------------------------------
(* Signals and histories *)

\* a pattern tag; the manager's own tags carry a number (Consensus_100)
Tag(name) == [name |-> name, num |-> 0]
NumTag(name, n) == [name |-> name, num |-> n]

\* { prediction: 'BIG', confidence: 50 }: no patterns, no logic
Neutral ==
    [prediction |-> "BIG", confidence |-> 50, patterns |-> <<>>, logic |-> ""]

\* what one call of m.predict(history, options) does: it returns a signal,
\* returns nothing, or throws
Returns(sig) == [kind |-> "signal", signal |-> sig]
ReturnsNothing == [kind |-> "nothing", signal |-> Neutral]
Throws == [kind |-> "throws", signal |-> Neutral]

\* history argument: an array of events (their resultType), or not an array
Events(h) == [isArray |-> TRUE, events |-> h]
NotAnArray == [isArray |-> FALSE, events |-> <<>>]

\* b BIG events, then s SMALL events, then t events of type tail (newest first)
Run(n, x) == [i \in 1..n |-> x]
Draws(b, s, t, tail) == Events(Run(b, "BIG") \o Run(s, "SMALL") \o Run(t, tail))

----------------------------------------------------------------------------
(* prediction_helpers.js: consensus analysis *)

CountBig(seq) == Cardinality({i \in 1..Len(seq) : seq[i] = "BIG"})

RECURSIVE Flatten(_)
Flatten(seqs) ==
    IF seqs = <<>> THEN <<>> ELSE Head(seqs) \o Flatten(Tail(seqs))

\* [...new Set(seq)]: the first occurrence of every element, in order
RECURSIVE Dedupe(_)
Dedupe(seq) ==
    IF seq = <<>> THEN <<>>
    ELSE LET front == Dedupe(SubSeq(seq, 1, Len(seq) - 1))
             x == seq[Len(seq)]
         IN  IF \E i \in 1..Len(front) : front[i] = x THEN front
             ELSE Append(front, x)

\* calculateConsensusStrength: agreement is the fraction votes/total
calculateConsensusStrength(predictions) ==
    LET total == Len(predictions)
        bigVotes == CountBig([i \in 1..total |-> predictions[i].p.prediction])
    IN  [votes |-> Max(bigVotes, total - bigVotes), total |-> total,
         prediction |-> IF 2 * bigVotes > total THEN "BIG" ELSE "SMALL"]

analyzePatternOverlapShared(predictions) ==
    LET allPatterns == Flatten([i \in 1..Len(predictions) |->
                                    predictions[i].p.patterns])
        uniquePatterns == Dedupe(allPatterns)
        twice(k) == \E j \in 1..Len(allPatterns) :
                        j # k /\ allPatterns[j] = allPatterns[k]
    IN  [isNaN |-> Len(allPatterns) = 0,
         shared |-> Cardinality({k \in 1..Len(allPatterns) : twice(k)}),
         all |-> Len(allPatterns),
         patterns |-> uniquePatterns]
\* analyzePatternOverlap: score is 1 - unique/all, NaN when there is no tag
analyzePatternOverlap(predictions) ==
    LET allPatterns == Flatten([i \in 1..Len(predictions) |->
                                    predictions[i].p.patterns])
        uniquePatterns == Dedupe(allPatterns)
    IN  [isNaN |-> Len(allPatterns) = 0,
         shared |-> Len(allPatterns) - Len(uniquePatterns),
         all |-> Len(allPatterns),
         patterns |-> uniquePatterns]

\* Math.min(1, (weight || 0.5) * (emaAccuracy || 0.5) * 2) of one predictor
Reliability(m) ==
    LET w == IF m.weight = 0 THEN Half ELSE m.weight
        e == IF m.emaAccuracy = 0 THEN Half ELSE m.emaAccuracy
    IN  Min(Scale, (w * e * 2) \div Scale)

\* assessModelReliability: a map from model id to reliability (a later entry
\* with the same id overwrites an earlier one)
assessModelReliability(predictions) ==
    LET n == Len(predictions)
        ids == {predictions[i].model.id : i \in 1..n}
        last(id) == CHOOSE i \in 1..n :
                        /\ predictions[i].model.id = id
                        /\ \A j \in (i + 1)..n : predictions[j].model.id # id
    IN  [id \in ids |-> Reliability(predictions[last(id)].model)]

RECURSIVE SumConfRel(_, _, _)
SumConfRel(predictions, modelReliability, i) ==
    IF i = 0 THEN 0
    ELSE predictions[i].p.confidence * modelReliability[predictions[i].model.id]
         + SumConfRel(predictions, modelReliability, i - 1)

\* calculateEnhancedConfidence: Math.min(92, Math.round(base * factor)) with
\*   base   = sum(confidence * reliability) / predictions.length
\*   factor = Math.min(1.3, 1 + agreement * 0.2 + overlap * 0.1)
\* computed as one exact fraction of the fixed-point reliabilities
calculateEnhancedConfidence(params) ==
    LET predictions == params.predictions
        consensusStrength == params.consensusStrength
        patternOverlap == params.patternOverlap
        modelReliability == params.modelReliability
        n == Len(predictions)
        sum == SumConfRel(predictions, modelReliability, n)
        t == patternOverlap.all
        fNum == 10 * consensusStrength.total * t
                  + 2 * consensusStrength.votes * t
                  + patternOverlap.shared * consensusStrength.total
        fDen == 10 * consensusStrength.total * t
        capped == 10 * fNum > 13 * fDen
        num == IF capped THEN sum * 13 ELSE sum * fNum
        den == IF capped THEN n * Scale * 10 ELSE n * Scale * fDen
    IN  Min(92, Round(num, den))

----------------------------------------------------------------------------
(* ModelManager.predict *)

minConfidence == 65

ModelPredCatchUnscored(m, out) ==
    LET w == IF m.weight = 0 THEN Scale ELSE m.weight
    IN  IF out.kind = "throws"
        THEN [model |-> m, p |-> Neutral, score |-> 0]
        ELSE LET p == IF out.kind = "nothing" THEN Neutral ELSE out.signal
                 c == IF p.confidence = 0 THEN 50 ELSE p.confidence
             IN  [model |-> m, p |-> p, score |-> c * w]
\* the map callback: the signal of one model and its score
\*   p = m.predict(history, options) || neutral;
\*   score = (p.confidence || 50) * (m.weight || 1);  catch: neutral, 50 * weight
ModelPred(m, out) ==
    LET w == IF m.weight = 0 THEN Scale ELSE m.weight
    IN  IF out.kind = "throws"
        THEN [model |-> m, p |-> Neutral, score |-> 50 * w]
        ELSE LET p == IF out.kind = "nothing" THEN Neutral ELSE out.signal
                 c == IF p.confidence = 0 THEN 50 ELSE p.confidence
             IN  [model |-> m, p |-> p, score |-> c * w]

\* preds.sort((a, b) => b.score - a.score): stable, descending by score
RECURSIVE SortByScore(_)
SortByScore(preds) ==
    IF preds = <<>> THEN <<>>
    ELSE LET front == SortByScore(SubSeq(preds, 1, Len(preds) - 1))
             x == preds[Len(preds)]
             k == Cardinality({i \in 1..Len(front) : front[i].score >= x.score})
         IN  SubSeq(front, 1, k) \o <<x>> \o SubSeq(front, k + 1, Len(front))

\* the fraction of BIG among the 20 most recent events, as bigCount/length
\* (length 0: the bias is 0.5)
RecentBias(history) ==
    LET look == IF history.isArray THEN history.events ELSE <<>>
        recent == SubSeq(look, 1, Min(20, Len(look)))
        bigCount == CountBig(recent)
    IN  IF Len(recent) > 0 THEN [num |-> bigCount, den |-> Len(recent)]
        ELSE [num |-> 1, den |-> 2]

NoReliability == 0 - 1

\* one entry of `contributing`
Contributor(x, weight, reliability) ==
    [id |-> x.model.id, weight |-> weight, prediction |-> x.p.prediction,
     confidence |-> x.p.confidence, reliability |-> reliability]

\* contributing of the top-model and single-model decisions
PlainContributing(preds) ==
    [i \in 1..Len(preds) |-> Contributor(preds[i], preds[i].model.weight, NoReliability)]

\* a decision object; the bias fallback carries no `contributing` property
Decision(prediction, confidence, logic, patterns, chosenModel, contributing) ==
    [prediction |-> prediction, confidence |-> confidence, logic |-> logic,
     patterns |-> patterns, chosenModel |-> chosenModel,
     hasContributing |-> TRUE, contributing |-> contributing]
FallbackDecision(prediction, confidence) ==
    [prediction |-> prediction, confidence |-> confidence,
     logic |-> <<"fallback-low-consensus-bias">>, patterns |-> <<>>,
     chosenModel |-> "fallback", hasContributing |-> FALSE, contributing |-> <<>>]

\* `${top.model.id}:${top.p.logic || 'model'}`
TopLogic(top) == <<top.model.id, IF top.p.logic = "" THEN "model" ELSE top.p.logic>>

IsConsensusOverlap04(consensusStrength, patternOverlap) ==
    /\ 4 * consensusStrength.votes > 3 * consensusStrength.total
    /\ ~patternOverlap.isNaN
    /\ 10 * patternOverlap.shared > 4 * patternOverlap.all
\* consensusStrength.agreement > 0.75 && patternOverlap.score > 0.6
IsConsensus(consensusStrength, patternOverlap) ==
    /\ 4 * consensusStrength.votes > 3 * consensusStrength.total
    /\ ~patternOverlap.isNaN
    /\ 10 * patternOverlap.shared > 6 * patternOverlap.all

\* the consensus decision; relOr1 is true where the weight is multiplied by
\* (modelReliability[id] || 1), false where by modelReliability[id]
ConsensusDecision(preds, consensusStrength, patternOverlap, modelReliability, relOr1) ==
    LET combinedConf == calculateEnhancedConfidence(
                            [predictions |-> preds,
                             consensusStrength |-> consensusStrength,
                             patternOverlap |-> patternOverlap,
                             modelReliability |-> modelReliability])
        rel(x) == modelReliability[x.model.id]
        factor(x) == IF relOr1 /\ rel(x) = 0 THEN Scale ELSE rel(x)
    IN  Decision(consensusStrength.prediction, combinedConf,
                 <<"ENHANCED_ENSEMBLE", preds[1].model.id, preds[2].model.id>>,
                 Dedupe(preds[1].p.patterns \o preds[2].p.patterns \o
                        << NumTag("Consensus",
                                  Round(consensusStrength.votes * 100,
                                        consensusStrength.total)),
                           NumTag("PatternMatch",
                                  Round(patternOverlap.shared * 100,
                                        patternOverlap.all)) >>),
                 "enhanced_ensemble",
                 [i \in 1..Len(preds) |->
                     Contributor(preds[i],
                                 (preds[i].model.weight * factor(preds[i])) \div Scale,
                                 rel(preds[i]))])

FallbackConfidenceMinus12(adjustedConf) == Max(55, Round(adjustedConf - 12, 1))
\* Math.max(55, Math.round(adjustedConf - 10))
FallbackConfidence(adjustedConf) == Max(55, Round(adjustedConf - 10, 1))

PenalisedConfidenceMinus10(adjustedConf) == Max(50, Round(adjustedConf - 10, 1))
\* Math.max(50, Math.round(adjustedConf - 12))
PenalisedConfidence(adjustedConf) == Max(50, Round(adjustedConf - 12, 1))

\* the top-model / bias-fallback branch (the else branch of the consensus test)
TopOrFallback(preds, history) ==
    LET top == preds[1]
        gap == IF Len(preds) >= 2 THEN preds[1].score - preds[2].score ELSE 0
        bias == RecentBias(history)
        small == Len(preds) >= 2 /\ gap < 15 * Scale
    IN  IF small /\ 10 * bias.num > 6 * bias.den
        THEN FallbackDecision("BIG", FallbackConfidence(top.p.confidence))
        ELSE IF small /\ 10 * bias.num < 4 * bias.den
        THEN FallbackDecision("SMALL", FallbackConfidence(top.p.confidence))
        ELSE Decision(top.p.prediction,
                      IF small THEN PenalisedConfidence(top.p.confidence)
                      ELSE top.p.confidence,
                      TopLogic(top), top.p.patterns, top.model.id,
                      PlainContributing(preds))

EnforceMinNever(final) == final
\* if (final.confidence < this.minConfidence) final.confidence = this.minConfidence
EnforceMin(final) ==
    IF final.confidence < minConfidence
    THEN [final EXCEPT !.confidence = minConfidence] ELSE final

\* the no-models decision
Sentinel ==
    [prediction |-> "UNKNOWN", confidence |-> Max(50, minConfidence),
     logic |-> <<"no-models">>, patterns |-> <<>>, chosenModel |-> "null",
     hasContributing |-> TRUE, contributing |-> <<>>]

Returned(decision, raw) == [threw |-> FALSE, decision |-> decision, raw |-> raw]
\* a TypeError leaves predict: no decision is returned
Raised == [threw |-> TRUE, decision |-> Sentinel, raw |-> 0]

SingleDecisionPenalised(preds) ==
    LET top == preds[1]
    IN  Decision(top.p.prediction,
                 Max(minConfidence, PenalisedConfidence(top.p.confidence)),
                 TopLogic(top), top.p.patterns, top.model.id,
                 PlainContributing(preds))
\* the single-model branch of the class: the floor is taken with Math.max
SingleDecision(preds) ==
    LET top == preds[1]
    IN  Decision(top.p.prediction, Max(minConfidence, top.p.confidence),
                 TopLogic(top), top.p.patterns, top.model.id,
                 PlainContributing(preds))

\* model_manager.js, class ModelManager: predict(history, options = {}).
\* outs[i] is what models[i].predict does in this round.  The result holds
\* the decision returned and raw, its confidence before the floor is enforced.
ModelManager_predict(ms, history, outs) ==
    IF Len(ms) = 0 THEN Returned(Sentinel, Sentinel.confidence)
    ELSE
    LET preds == SortByScore([i \in 1..Len(ms) |-> ModelPred(ms[i], outs[i])])
    IN  IF Len(preds) >= 2
        THEN LET consensusStrength == calculateConsensusStrength(preds)
                 patternOverlap == analyzePatternOverlap(preds)
                 modelReliability == assessModelReliability(preds)
                 final == IF IsConsensus(consensusStrength, patternOverlap)
                          THEN ConsensusDecision(preds, consensusStrength,
                                                 patternOverlap, modelReliability, TRUE)
                          ELSE TopOrFallback(preds, history)
             IN  Returned(EnforceMin(final), final.confidence)
        ELSE Returned(SingleDecision(preds), preds[1].p.confidence)

\* kbt_models.js, function ModelManager: ModelManager.prototype.predict.
\* There is no guard for an empty roster: preds[0] is undefined there and
\* reading top.p raises a TypeError.
ModelManager_prototype_predict(ms, history, outs) ==
    LET preds == SortByScore([i \in 1..Len(ms) |-> ModelPred(ms[i], outs[i])])
        consensus ==
            /\ Len(preds) >= 2
            /\ IsConsensus(calculateConsensusStrength(preds),
                           analyzePatternOverlap(preds))
    IN  IF consensus
        THEN LET final == ConsensusDecision(preds,
                              calculateConsensusStrength(preds),
                              analyzePatternOverlap(preds),
                              assessModelReliability(preds), FALSE)
             IN  Returned(EnforceMin(final), final.confidence)
        ELSE IF Len(preds) = 0 THEN Raised
        ELSE LET final == TopOrFallback(preds, history)
             IN  Returned(EnforceMin(final), final.confidence)

----------------------------------------------------------------------------
(* ModelManager.learn *)

ManagerLearnRateUncapped(streak) == Scale + streak * 4 * (Scale \div 10)
\* lr = 1 + Math.min(3, streak * 0.4), streak = context.consecutiveLosses || 0
ManagerLearnRate(streak) == Scale + Min(3 * Scale, streak * 4 * (Scale \div 10))

FindModelOrFirst(ms, id) ==
    IF \E i \in 1..Len(ms) : ms[i].id = id
    THEN CHOOSE i \in 1..Len(ms) : ms[i].id = id
    ELSE 1
\* this.models.find(x => (x.id || x.name) === chosenModelId): index or 0
FindModel(ms, id) ==
    IF \E i \in 1..Len(ms) : ms[i].id = id
    THEN CHOOSE i \in 1..Len(ms) :
             ms[i].id = id /\ \A j \in 1..(i - 1) : ms[j].id # id
    ELSE 0

\* learn(chosenModelId, wasWin, context): the roster after the call
ModelManager_learn(ms, chosenModelId, wasWin, streak) ==
    LET i == FindModel(ms, chosenModelId)
    IN  IF i = 0 THEN ms
        ELSE [ms EXCEPT ![i] = Predictor_learn(ms[i], wasWin,
                                   LrOption(ManagerLearnRate(streak)))]

NoRound ==
    [called |-> FALSE, history |-> NotAnArray, outs |-> <<>>,
     threw |-> FALSE, decision |-> Sentinel, raw |-> 0]

----------------------------------------------------------------------------
(* Rounds.  predict is synchronous: a call computes its decision in one
   step (round.called) and the caller then takes it (Return); no other call
   on the manager runs in between. *)

\* confidences the signal providers are taken to return
Confidences == {0, 55, 75, 80}
\* tag lists the signal providers are taken to return
PatternLists == {<<>>, <<Tag("a")>>}

Signals ==
    [prediction : {"BIG", "SMALL"}, confidence : Confidences,
     patterns : PatternLists, logic : {"L"}]

\* what a predictor's predict may do in one round
Outcomes == {Returns(sig) : sig \in Signals} \cup {ReturnsNothing, Throws}

\* histories: not an array; empty; 14 BIG / 6 SMALL (bias 0.7); 6 / 14 (0.3);
\* 10 / 10 (0.5); 12 / 8 followed by 5 older BIG (0.6 on the last 20, 0.68
\* on all 25); 8 / 12 followed by 5 older SMALL (0.4 on the last 20)
Histories ==
    {NotAnArray, Events(<<>>), Draws(14, 6, 0, "BIG"), Draws(6, 14, 0, "BIG"),
     Draws(10, 10, 0, "BIG"), Draws(12, 8, 5, "BIG"), Draws(8, 12, 5, "SMALL")}

\* consecutiveLosses values passed as learn's context
Streaks == {0, 3}

RoundOf(history, outs, res) ==
    [called |-> TRUE, history |-> history, outs |-> outs,
     threw |-> res.threw, decision |-> res.decision, raw |-> res.raw]

PredictSortsRoster(history, outs) ==
    LET preds == SortByScore([i \in 1..Len(models) |-> ModelPred(models[i], outs[i])])
    IN  /\ ~round.called
        /\ round' = RoundOf(history, outs, ModelManager_predict(models, history, outs))
        /\ models' = [i \in 1..Len(models) |-> preds[i].model]
\* modelManager.predict(history, options) on the class of model_manager.js
Predict(history, outs) ==
    /\ ~round.called
    /\ round' = RoundOf(history, outs, ModelManager_predict(models, history, outs))
    /\ UNCHANGED models

\* manager.predict(history, options) on the prototype of kbt_models.js
PredictPrototype(history, outs) ==
    /\ ~round.called
    /\ round' = RoundOf(history, outs,
                        ModelManager_prototype_predict(models, history, outs))
    /\ UNCHANGED models

\* the caller takes the decision (or the exception)
Return ==
    /\ round.called
    /\ round' = NoRound
    /\ UNCHANGED models

\* modelManager.learn(chosenModelId, wasWin, { consecutiveLosses })
Learn(chosenModelId, wasWin, streak) ==
    /\ ~round.called
    /\ TotalLearns(models) < MaxManagerLearns
    /\ models' = ModelManager_learn(models, chosenModelId, wasWin, streak)
    /\ UNCHANGED round

Rounds ==
    \/ /\ ~round.called
       /\ \E history \in Histories, outs \in [1..Len(models) -> Outcomes] :
              Predict(history, outs)
    \/ /\ ~round.called
       /\ \E history \in Histories, outs \in [1..Len(models) -> Outcomes] :
              PredictPrototype(history, outs)
    \/ Return

(* Spec: a manager whose roster holds 0..MaxModels predictors in their
   default state *)
Init ==
    /\ \E n \in 0..MaxModels : models = Roster(n)
    /\ round = NoRound

Next == Rounds

Spec == Init /\ [][Next]_vars

(* SpecWeighted: the manager as constructed (KBT and AI_FLONZA), with credit
   assignment between the rounds *)
InitWeighted ==
    /\ models = DefaultRoster
    /\ round = NoRound

NextWeighted ==
    \/ Rounds
    \/ /\ ~round.called
       /\ \E id \in {models[i].id : i \in 1..Len(models)} \cup {"fallback"},
             wasWin \in BOOLEAN, streak \in Streaks :
              Learn(id, wasWin, streak)

SpecWeighted == InitWeighted /\ [][NextWeighted]_vars

----------------------------------------------------------------------------
(* SpecLearn: direct learn calls on the predictors of the default roster *)

\* learning-rate arguments tried: absent, non-numeric, below 0.1 (negative,
\* zero, 0.05), 0.1, 1.0, the manager's 2.2 and 4.0, and 10
LearnOptions ==
    {NoOptions, BadLrOption} \cup
    {LrOption(x) : x \in {-Scale, 0, Scale \div 20, Scale \div 10, Scale,
                          22 * (Scale \div 10), 4 * Scale, 10 * Scale}}

InitLearn ==
    /\ models = DefaultRoster
    /\ round = NoRound

\* models[i].learn(wasWin, options)
DoLearn(i, wasWin, options) ==
    /\ TotalLearns(models) < MaxLearnCalls
    /\ models' = [models EXCEPT ![i] = Predictor_learn(models[i], wasWin, options)]
    /\ UNCHANGED round

NextLearn ==
    \E i \in 1..Len(models), wasWin \in BOOLEAN, options \in LearnOptions :
        DoLearn(i, wasWin, options)

SpecLearn == InitLearn /\ [][NextLearn]_vars

----------------------------------------------------------------------------
(* The signal providers behind KBTModel.predict and AIModel.predict *)

MaxHistoryLen == 4

\* a history entry that is null: reading its resultType raises a TypeError
NullEvent == "null"

\* enhancedTrendAnalysis on a non-array or on fewer than 3 events
KBTFallback ==
    [prediction |-> "BIG", confidence |-> 60, patterns |-> <<Tag("fallback")>>,
     logic |-> "8"]
\* flonzaElitePredict on a non-array or on fewer than 10 events
AIFallback ==
    [prediction |-> "BIG", confidence |-> 55,
     patterns |-> <<Tag("insufficient_data")>>, logic |-> "fallback"]

\* history.length < minLen, or history is no array
TooShort(history, minLen) == ~history.isArray \/ Len(history.events) < minLen

\* some entry among the first 30 is null
HasNull(history) ==
    \E k \in 1..Min(30, Len(history.events)) : history.events[k] = NullEvent

\* enhancedTrendAnalysis(history, options): what the call may do.  Past the
\* guard every entry of history.slice(0, 30) is dereferenced; the analysis
\* proper is left open: it returns some signal.
enhancedTrendAnalysis(history) ==
    IF TooShort(history, 3) THEN {Returns(KBTFallback)}
    ELSE IF HasNull(history) THEN {Throws}
    ELSE {Returns(sig) : sig \in Signals}

\* flonzaElitePredict(history): likewise, the guard being 10 events
flonzaElitePredict(history) ==
    IF TooShort(history, 10) THEN {Returns(AIFallback)}
    ELSE IF HasNull(history) THEN {Throws}
    ELSE {Returns(sig) : sig \in Signals}

\* m.predict(history, options): the provider's result with the model's
\* metadata attached; nothing is caught
Predictor_predict(m, history) ==
    IF m.cls = "KBTModel" THEN enhancedTrendAnalysis(history)
    ELSE flonzaElitePredict(history)

\* histories handed to a predictor: no array, every sequence of up to
\* MaxHistoryLen entries BIG, SMALL or null, and three of ten entries
PredictorHistories ==
    {NotAnArray} \cup
    {Events(h) : h \in UNION {[1..k -> {"BIG", "SMALL", NullEvent}] :
                                  k \in 0..MaxHistoryLen}} \cup
    {Events(Run(10, "BIG")), Events(Run(5, "SMALL") \o Run(5, "BIG")),
     Events(<<NullEvent>> \o Run(9, "BIG"))}

CallOf(i, history, out) ==
    [called |-> TRUE, predictor |-> i, history |-> history, out |-> out]

\* models[i].predict(history)
PredictorCall(i, history) ==
    /\ \E out \in Predictor_predict(models[i], history) :
           round' = CallOf(i, history, out)
    /\ UNCHANGED models

InitPredictor ==
    /\ models = DefaultRoster
    /\ round = NoRound

NextPredictor ==
    \/ /\ ~round.called
       /\ \E i \in 1..Len(models), history \in PredictorHistories :
              PredictorCall(i, history)
    \/ Return

SpecPredictor == InitPredictor /\ [][NextPredictor]_vars

----------------------------------------------------------------------------
(* SpecStats: learn calls on single predictors, each recorded with the state
   it started from and with what it returned *)

MaxStatsCalls == 2

\* m after learn(o) for each outcome o of outcomes in turn, options absent
RECURSIVE LearnRun(_, _)
LearnRun(m, outcomes) ==
    IF outcomes = <<>> THEN m
    ELSE LearnRun(Predictor_learn(m, Head(outcomes), NoOptions), Tail(outcomes))

\* eight wins, then two losses
EightWinsTwoLosses == Run(8, TRUE) \o Run(2, FALSE)

\* the default roster, fresh or with one predictor at wins = 8, losses = 2
SeasonedRosters ==
    {DefaultRoster} \cup
    {[DefaultRoster EXCEPT ![i] = LearnRun(@, EightWinsTwoLosses)] :
         i \in 1..Len(DefaultRoster)}

NoLearnCall == [called |-> FALSE, kind |-> "none", calls |-> 0]

\* one learn(wasWin, options) on models[i]: the state before, the value returned
LearnCallOf(calls, i, wasWin, options, before, returned) ==
    [called |-> FALSE, kind |-> "learn", calls |-> calls, predictor |-> i,
     wasWin |-> wasWin, options |-> options, before |-> before,
     returned |-> returned]

InitStats ==
    /\ models \in SeasonedRosters
    /\ round = NoLearnCall

\* models[i].learn(wasWin, options) and its return value
LearnCall(i, wasWin, options) ==
    LET after == Predictor_learn(models[i], wasWin, options)
    IN  /\ round.calls < MaxStatsCalls
        /\ models' = [models EXCEPT ![i] = after]
        /\ round' = LearnCallOf(round.calls + 1, i, wasWin, options, models[i],
                                LearnResult(after))

NextStats ==
    \E i \in 1..Len(models), wasWin \in BOOLEAN, options \in LearnOptions :
        LearnCall(i, wasWin, options)

SpecStats == InitStats /\ [][NextStats]_vars

----------------------------------------------------------------------------
(* Credit assignment: ModelManager.learn and learnMultiple, in the class of
   model_manager.js ("class") and in the prototype version of kbt_models.js
   ("prototype"), with the persistence pool *)

MaxContributions == 2

\* the context argument: consecutiveLosses present or missing
NoContext == [has |-> FALSE, consecutiveLosses |-> 0]
Losses(n) == [has |-> TRUE, consecutiveLosses |-> n]
\* context.consecutiveLosses || 0
StreakOf(context) == IF context.has THEN context.consecutiveLosses ELSE 0

\* this.pool: null, or a pool whose query resolves, rejects, or throws
Pools == {"none", "ok", "rejects", "throws"}

\* What becomes of the persist step after a model's learn.  The class calls
\* the async persistModelStats(m).catch(...): a rejection and a throw inside
\* it both end in the catch callback.  The prototype's learn wraps
\* pool.query(...).catch(...) in try/catch; its learnMultiple calls
\* pool.query(...).catch(...) bare, so a query that throws leaves the loop.
PersistOutcome(impl, op, pool) ==
    IF pool = "none" THEN "none"
    ELSE IF pool = "ok" THEN "sent"
    ELSE IF pool = "rejects" THEN "swallowed"
    ELSE IF impl = "prototype" /\ op = "learnMultiple" THEN "escapes"
    ELSE "swallowed"

\* what a call on the manager did: the roster after it, the value returned
\* (null, the stats of learn, or the results of learnMultiple), whether it
\* raised, and the ids a persist query was issued for
Effect(ms, isNull, value, threw, queries) ==
    [models |-> ms, isNull |-> isNull, value |-> value, threw |-> threw,
     queries |-> queries]

\* learn(chosenModelId, wasWin, context) with its return value
ModelManager_learn_call(impl, ms, chosenModelId, wasWin, context, pool) ==
    LET i == FindModel(ms, chosenModelId)
        after == ModelManager_learn(ms, chosenModelId, wasWin, StreakOf(context))
        persist == PersistOutcome(impl, "learn", pool)
    IN  IF i = 0 THEN Effect(ms, TRUE, <<>>, FALSE, <<>>)
        ELSE Effect(after, persist = "escapes", LearnResult(after[i]),
                    persist = "escapes",
                    IF persist = "none" THEN <<>> ELSE <<chosenModelId>>)

\* a contributions argument: an array of { id, weight, confidence }, or no array
Contribution(id, weight, confidence) ==
    [id |-> id, weight |-> weight, confidence |-> confidence]
Contributions(items) == [isArray |-> TRUE, items |-> items]
NotAContributionArray == [isArray |-> FALSE, items |-> <<>>]

\* (c.weight || 1) * (c.confidence || 50), the weight counted in hundredths
ContributionScore(c) ==
    ((IF c.weight = 0 THEN Scale ELSE c.weight) \div 100)
        * (IF c.confidence = 0 THEN 50 ELSE c.confidence)

\* contributions.reduce(...) || 1
RECURSIVE SumScores(_, _)
SumScores(items, k) ==
    IF k = 0 THEN 0 ELSE ContributionScore(items[k]) + SumScores(items, k - 1)
TotalScore(items) ==
    IF SumScores(items, Len(items)) = 0 THEN 1 ELSE SumScores(items, Len(items))

\* lr2 = baseLR * (0.2 + 0.8 * share), share = score / totalScore
ShareRate(baseLR, score, totalScore) ==
    (baseLR * (((2 * totalScore + 8 * score) * 1000) \div totalScore)) \div Scale

\* the for loop of learnMultiple from entry k on; acc is the Effect so far
RECURSIVE CreditLoop(_, _, _)
CreditLoop(acc, call, k) ==
    IF k > Len(call.items) \/ acc.threw THEN acc
    ELSE LET c == call.items[k]
             i == FindModel(acc.models, c.id)
             lr2 == ShareRate(call.baseLR, ContributionScore(c), call.totalScore)
             m == Predictor_learn(acc.models[i], call.wasWin, LrOption(lr2))
             done == Effect([acc.models EXCEPT ![i] = m], FALSE,
                            Append(acc.value,
                                   [id |-> m.id, lr |-> lr2, res |-> LearnResult(m)]),
                            call.persist = "escapes",
                            IF call.persist = "none" THEN acc.queries
                            ELSE Append(acc.queries, m.id))
         IN  IF i = 0 THEN CreditLoop(acc, call, k + 1)
             ELSE CreditLoop(done, call, k + 1)

\* learnMultiple(contributions, wasWin, context)
ModelManager_learnMultiple(impl, ms, contributions, wasWin, context, pool) ==
    IF ~contributions.isArray \/ Len(contributions.items) = 0
    THEN Effect(ms, TRUE, <<>>, FALSE, <<>>)
    ELSE CreditLoop(Effect(ms, FALSE, <<>>, FALSE, <<>>),
                    [items |-> contributions.items,
                     totalScore |-> TotalScore(contributions.items),
                     baseLR |-> ManagerLearnRate(StreakOf(context)),
                     wasWin |-> wasWin,
                     persist |-> PersistOutcome(impl, "learnMultiple", pool)],
                    1)

----------------------------------------------------------------------------
(* SpecCredit: one credit call on a roster, recorded with its arguments, the
   roster before it and its effect *)

Implementations == {"class", "prototype"}
\* ids named by callers: the two of the roster and one the roster lacks
CreditIds == {"KBT", "AI_FLONZA", "GONE"}
\* contexts: consecutiveLosses missing, 0, 1, 3, 8 (the cap of 3 is passed at 7.5), 9
CreditContexts == {NoContext} \cup {Losses(n) : n \in {0, 1, 3, 8, 9}}
ContributionItems ==
    {Contribution(id, w, c) : id \in CreditIds, w \in {Scale, 2 * Scale},
                              c \in {0, 80}}
ContributionLists ==
    {NotAContributionArray} \cup
    {Contributions(items) :
         items \in UNION {[1..k -> ContributionItems] : k \in 0..MaxContributions}}

CreditCallOf(kind, impl, target, wasWin, context, pool, before, effect) ==
    [called |-> FALSE, kind |-> kind, impl |-> impl, target |-> target,
     wasWin |-> wasWin, context |-> context, pool |-> pool, before |-> before,
     isNull |-> effect.isNull, value |-> effect.value, threw |-> effect.threw,
     queries |-> effect.queries]

CreditLearn(impl, id, wasWin, context, pool) ==
    LET effect == ModelManager_learn_call(impl, models, id, wasWin, context, pool)
    IN  /\ models' = effect.models
        /\ round' = CreditCallOf("learn", impl, id, wasWin, context, pool,
                                 models, effect)

CreditLearnMultiple(impl, contributions, wasWin, context, pool) ==
    LET effect == ModelManager_learnMultiple(impl, models, contributions, wasWin,
                                             context, pool)
    IN  /\ models' = effect.models
        /\ round' = CreditCallOf("learnMultiple", impl, contributions, wasWin,
                                 context, pool, models, effect)

InitCredit ==
    /\ models \in SeasonedRosters
    /\ round = NoLearnCall

NextCredit ==
    \/ /\ round.kind = "none"
       /\ \E impl \in Implementations, id \in CreditIds, wasWin \in BOOLEAN,
             context \in CreditContexts, pool \in Pools :
              CreditLearn(impl, id, wasWin, context, pool)
    \/ /\ round.kind = "none"
       /\ \E impl \in Implementations, contributions \in ContributionLists,
             wasWin \in BOOLEAN, context \in {NoContext, Losses(3), Losses(9)},
             pool \in Pools :
              CreditLearnMultiple(impl, contributions, wasWin, context, pool)

SpecCredit == InitCredit /\ [][NextCredit]_vars

-----------------------------------------------------------------------------
(* Lifecycle: init(pool) loads the stored stats; predict, persistModelStats
   and dumpModelState / stats read them *)

MaxLifecycleCalls == 3

\* a column of a row of the models table: a number, or null / not selected
Num(v) == [isNumber |-> TRUE, value |-> v]
Null == [isNumber |-> FALSE, value |-> 0]

\* a row of SELECT * FROM models.  The class creates the column ema_accuracy,
\* the prototype emaAccuracy, which Postgres folds to emaaccuracy.
Row(id, weight, wins, losses, ema_accuracy, emaaccuracy) ==
    [id |-> id, weight |-> weight, wins |-> wins, losses |-> losses,
     ema_accuracy |-> ema_accuracy, emaaccuracy |-> emaaccuracy]

\* class: if (typeof r.x === 'number') m.x = r.x, for the four columns
LoadRow(m, r) ==
    [m EXCEPT !.weight = IF r.weight.isNumber THEN r.weight.value ELSE @,
              !.wins = IF r.wins.isNumber THEN r.wins.value ELSE @,
              !.losses = IF r.losses.isNumber THEN r.losses.value ELSE @,
              !.emaAccuracy = IF r.ema_accuracy.isNumber
                              THEN r.ema_accuracy.value ELSE @]

\* prototype: weight and emaaccuracy by typeof, wins and losses by r.x || m.x
\* (null in r and undefined in r are false: the value in memory stays)
LoadRowPrototype(m, r) ==
    [m EXCEPT !.weight = IF r.weight.isNumber THEN r.weight.value ELSE @,
              !.wins = IF r.wins.isNumber /\ r.wins.value # 0
                       THEN r.wins.value ELSE @,
              !.losses = IF r.losses.isNumber /\ r.losses.value # 0
                         THEN r.losses.value ELSE @,
              !.emaAccuracy = IF r.emaaccuracy.isNumber
                              THEN r.emaaccuracy.value ELSE @]

\* for (const r of rows): the predictor with the row's id takes its columns
RECURSIVE LoadRows(_, _, _)
LoadRows(impl, ms, rows) ==
    IF rows = <<>> THEN ms
    ELSE LET r == Head(rows)
             i == FindModel(ms, r.id)
             loaded == IF i = 0 THEN ms
                       ELSE [ms EXCEPT ![i] = IF impl = "class" THEN LoadRow(@, r)
                                              ELSE LoadRowPrototype(@, r)]
         IN  LoadRows(impl, loaded, Tail(rows))

\* init(pool): nothing without a pool; a query that rejects or throws is
\* caught before any row is read
ModelManager_init(impl, ms, pool, rows) ==
    IF pool = "ok" THEN LoadRows(impl, ms, rows) ELSE ms

\* the parameters persistModelStats(m) sends, and an entry of dumpModelState()
\* or stats()
StatsOf(m) ==
    [id |-> m.id, weight |-> m.weight, wins |-> m.wins, losses |-> m.losses,
     emaAccuracy |-> m.emaAccuracy]
persistModelStats(m, pool) == IF pool = "none" THEN <<>> ELSE <<StatsOf(m)>>
dumpModelState(ms) == [i \in 1..Len(ms) |-> StatsOf(ms[i])]

\* rows a run of the server stored after learn calls (weight 1.0 .. 3.0 there),
\* rows with null columns, and a row whose weight was written as 5.0
StoredWeights == {Null, Num((122 * Scale) \div 100), Num(5 * Scale)}
StoredRows ==
    {Row(id, w, wins, losses, e1, e2) :
         id \in {"KBT", "GONE"}, w \in StoredWeights, wins \in {Null, Num(0), Num(8)},
         losses \in {Null, Num(2)}, e1 \in {Null, Num((7 * Scale) \div 10)},
         e2 \in {Null, Num((6 * Scale) \div 10)}}
RowLists ==
    {<<>>} \cup {<<r>> : r \in StoredRows} \cup
    {<<Row("AI_FLONZA", Num(2 * Scale), Num(3), Num(1), Num(Half), Null), r>> :
         r \in {s \in StoredRows : s.weight.isNumber /\ ~s.wins.isNumber}}

\* signals of one round of the lifecycle
LifecycleOuts ==
    {<<Returns([prediction |-> "BIG", confidence |-> 80,
                patterns |-> <<Tag("a")>>, logic |-> "L"]), out>> :
         out \in {Throws, Returns([prediction |-> "SMALL", confidence |-> 55,
                                   patterns |-> <<>>, logic |-> "L"])}}

\* one call on the manager: the roster before it and what it returned or sent
LifecycleCallOf(kind, before, value) ==
    [called |-> FALSE, kind |-> kind, calls |-> round.calls + 1,
     before |-> before, value |-> value]

InitLifecycle ==
    /\ models = DefaultRoster
    /\ round = NoLearnCall

\* await modelManager.init(pool)
LifecycleInit(impl, pool, rows) ==
    /\ models' = ModelManager_init(impl, models, pool, rows)
    /\ round' = LifecycleCallOf("init", models, <<impl, pool>>)

\* modelManager.learn(id, wasWin, { consecutiveLosses: 0 })
LifecycleLearn(impl, id, wasWin) ==
    LET effect == ModelManager_learn_call(impl, models, id, wasWin, Losses(0), "ok")
    IN  /\ models' = effect.models
        /\ round' = LifecycleCallOf("learn", models, effect.value)

\* modelManager.learnMultiple([{ id, weight: 1.0, confidence: 80 }], wasWin, {})
LifecycleLearnMultiple(impl, id, wasWin) ==
    LET effect == ModelManager_learnMultiple(impl, models,
                      Contributions(<<Contribution(id, Scale, 80)>>), wasWin,
                      NoContext, "ok")
    IN  /\ models' = effect.models
        /\ round' = LifecycleCallOf("learnMultiple", models, effect.value)

\* modelManager.predict(history, options)
LifecyclePredict(history, outs) ==
    /\ round' = LifecycleCallOf("predict", models,
                     ModelManager_predict(models, history, outs).decision)
    /\ UNCHANGED models

\* persistModelStats(m)
LifecyclePersist(i, pool) ==
    /\ round' = LifecycleCallOf("persistModelStats", models,
                                persistModelStats(models[i], pool))
    /\ UNCHANGED models

\* dumpModelState() of the class, stats() of the prototype
LifecycleDump ==
    /\ round' = LifecycleCallOf("dumpModelState", models, dumpModelState(models))
    /\ UNCHANGED models

NextLifecycle ==
    \/ /\ round.calls < MaxLifecycleCalls
       /\ \E impl \in Implementations, pool \in Pools :
              \E rows \in IF pool = "ok" THEN RowLists ELSE {<<>>} :
                  LifecycleInit(impl, pool, rows)
    \/ /\ round.calls < MaxLifecycleCalls
       /\ \E impl \in Implementations, id \in {"KBT", "GONE"}, wasWin \in BOOLEAN :
              LifecycleLearn(impl, id, wasWin)
    \/ /\ round.calls < MaxLifecycleCalls
       /\ \E impl \in Implementations, id \in {"AI_FLONZA"}, wasWin \in BOOLEAN :
              LifecycleLearnMultiple(impl, id, wasWin)
    \/ /\ round.calls < MaxLifecycleCalls
       /\ \E outs \in LifecycleOuts : LifecyclePredict(Draws(14, 6, 0, "BIG"), outs)
    \/ /\ round.calls < MaxLifecycleCalls
       /\ \E i \in 1..Len(models), pool \in {"none", "ok"} : LifecyclePersist(i, pool)
    \/ /\ round.calls < MaxLifecycleCalls
       /\ LifecycleDump

SpecLifecycle == InitLifecycle /\ [][NextLifecycle]_vars

-----------------------------------------------------------------------------
(* server.js: the background loop fetchAndProcess and GET /trade.  Node runs
   a handler until it reaches an await; an action below is the code between
   two awaits.  predict, learn and learnMultiple contain no await, and the
   promise of persistModelStats is not awaited: it settles in a later turn. *)

MaxSettles == 2

\* what one predict call computes from the predictors' weight and emaAccuracy:
\* the scores, the reliabilities and the decision with its contributor weights
Observed(ms, history, outs) ==
    LET preds == [i \in 1..Len(ms) |-> ModelPred(ms[i], outs[i])]
    IN  [scores |-> [i \in 1..Len(ms) |-> preds[i].score],
         reliability |-> assessModelReliability(SortByScore(preds)),
         decision |-> ModelManager_predict(ms, history, outs).decision]
NothingObserved == [scores |-> <<>>, reliability |-> <<>>, decision |-> Sentinel]

\* predRows of the settle step: no pending row, or { prediction, model_id,
\* contributors } as stored by storePrediction
NoRow == [found |-> FALSE, model_id |-> "", contributors |-> NotAContributionArray]
PendingRow(model_id, contributors) ==
    [found |-> TRUE, model_id |-> model_id, contributors |-> contributors]
PendingRows ==
    {NoRow, PendingRow("KBT", Contributions(<<>>)),
     PendingRow("enhanced_ensemble", Contributions(<<>>)),
     PendingRow("ensemble",
                Contributions(<<Contribution("KBT", Scale, 80),
                                Contribution("AI_FLONZA", Scale, 55)>>))}

InitServer ==
    /\ models \in SeasonedRosters
    /\ round = [called |-> FALSE, kind |-> "server",
                loop |-> "timer", trade |-> "idle", row |-> NoRow,
                isWin |-> FALSE, consecutiveLosses |-> 0, settles |-> 0,
                inflight |-> 0, reader |-> "none", seen |-> NothingObserved,
                snapshot |-> models, committed |-> models]

\* the timer fires: fetchAndProcess runs to await fetchWingoData()
LoopStart ==
    /\ round.loop = "timer"
    /\ round.settles < MaxSettles
    /\ round' = [round EXCEPT !.loop = "fetching"]
    /\ UNCHANGED models

\* results arrive: none (return), or some and the exists query is awaited
LoopFetched(some) ==
    /\ round.loop = "fetching"
    /\ round' = [round EXCEPT !.loop = IF some THEN "checking" ELSE "timer"]
    /\ UNCHANGED models

\* lines 222-252: the period is known (return), or predict and await storePrediction
LoopPredict(exists, outs) ==
    /\ round.loop = "checking"
    /\ round' = IF exists THEN [round EXCEPT !.loop = "timer"]
                ELSE [round EXCEPT !.loop = "storing", !.reader = "loop",
                          !.seen = Observed(models, Draws(14, 6, 0, "BIG"), outs),
                          !.snapshot = round.committed]
    /\ UNCHANGED models

\* lines 255-263: await the SELECT of the pending prediction
LoopStored ==
    /\ round.loop = "storing"
    /\ round' = [round EXCEPT !.loop = "selecting"]
    /\ UNCHANGED models

\* lines 265-274: no pending row (done), or isWin and await the UPDATE
LoopSelected(row, isWin) ==
    /\ round.loop = "selecting"
    /\ round' = IF row.found
                THEN [round EXCEPT !.loop = "updating", !.row = row, !.isWin = isWin]
                ELSE [round EXCEPT !.loop = "timer"]
    /\ UNCHANGED models

\* the effect of lines 277-289 on the roster
SettleEffect ==
    LET streak == IF round.isWin THEN 0 ELSE round.consecutiveLosses + 1
        row == round.row
    IN  IF row.model_id # "ensemble"
        THEN ModelManager_learn_call("class", models, row.model_id, round.isWin,
                                     Losses(streak), "ok")
        ELSE ModelManager_learnMultiple("class", models, row.contributors,
                                        round.isWin, Losses(streak), "ok")

LoopSettleYieldsMidLearn ==
    LET effect == SettleEffect
    IN  /\ round.loop = "updating"
        /\ models' = [i \in 1..Len(models) |->
                          [effect.models[i] EXCEPT !.weight = models[i].weight]]
        /\ round' = [round EXCEPT
                         !.loop = "timer", !.row = NoRow,
                         !.consecutiveLosses = IF round.isWin THEN 0 ELSE @ + 1,
                         !.settles = @ + 1,
                         !.inflight = @ + Len(effect.queries),
                         !.committed = effect.models]
\* lines 277-306: the streak, learn or learnMultiple, the timer is set again
LoopSettle ==
    LET effect == SettleEffect
    IN  /\ round.loop = "updating"
        /\ models' = effect.models
        /\ round' = [round EXCEPT
                         !.loop = "timer", !.row = NoRow,
                         !.consecutiveLosses = IF round.isWin THEN 0 ELSE @ + 1,
                         !.settles = @ + 1,
                         !.inflight = @ + Len(effect.queries),
                         !.committed = effect.models]

\* an awaited query of the loop rejects: catch, finally, the timer is set again
LoopAwaitFails ==
    /\ round.loop \in {"checking", "storing", "selecting", "updating"}
    /\ round' = [round EXCEPT !.loop = "timer", !.row = NoRow]
    /\ UNCHANGED models

\* the query of a persistModelStats call settles; its callback only logs
PersistSettled ==
    /\ round.inflight > 0
    /\ round' = [round EXCEPT !.inflight = @ - 1]
    /\ UNCHANGED models

\* GET /trade arrives and runs to await fetchWingoData()
TradeRequest ==
    /\ round.trade = "idle"
    /\ round' = [round EXCEPT !.trade = "fetching"]
    /\ UNCHANGED models

\* lines 317-377: no data (respond), or predict and await storePrediction
TradePredict(some, outs) ==
    /\ round.trade = "fetching"
    /\ round' = IF some
                THEN [round EXCEPT !.trade = "storing", !.reader = "trade",
                          !.seen = Observed(models, Draws(14, 6, 0, "BIG"), outs),
                          !.snapshot = round.committed]
                ELSE [round EXCEPT !.trade = "idle"]
    /\ UNCHANGED models

\* lines 379-392: res.json, or the catch when storePrediction rejected
TradeRespond ==
    /\ round.trade = "storing"
    /\ round' = [round EXCEPT !.trade = "idle"]
    /\ UNCHANGED models

NextServer ==
    \/ LoopStart
    \/ \E some \in BOOLEAN : LoopFetched(some)
    \/ \E exists \in BOOLEAN, outs \in LifecycleOuts : LoopPredict(exists, outs)
    \/ LoopStored
    \/ \E row \in PendingRows, isWin \in BOOLEAN : LoopSelected(row, isWin)
    \/ LoopSettle
    \/ LoopAwaitFails
    \/ PersistSettled
    \/ TradeRequest
    \/ \E some \in BOOLEAN, outs \in LifecycleOuts : TradePredict(some, outs)
    \/ TradeRespond

SpecServer == InitServer /\ [][NextServer]_vars

-----------------------------------------------------------------------------
(* SpecConsensus: a manager with a third predictor added to the roster, each
   predictor fresh, after a run of losses, or after eight wins and two losses *)

\* a run of losses that takes weight * emaAccuracy * 2 below 1 (weight 3.0,
\* emaAccuracy about 0.5 * 0.95^25)
LongLosingRun == Run(25, FALSE)

\* fresh; after the losing run; after eight wins and two losses
SeasonedPredictors(m) ==
    {m, LearnRun(m, LongLosingRun), LearnRun(m, EightWinsTwoLosses)}

ConsensusRosters ==
    {ms \in [1..3 -> UNION {SeasonedPredictors(Roster(3)[i]) : i \in 1..3}] :
         \A i \in 1..3 : ms[i] \in SeasonedPredictors(Roster(3)[i])}

\* signals of a round: either category, confidence 55 or 80, tag "a" or none
ConsensusOutcomes ==
    {Returns(sig) : sig \in {s \in Signals : s.confidence \in {55, 80}}}

InitConsensus ==
    /\ models \in ConsensusRosters
    /\ round = NoRound

NextConsensus ==
    \/ /\ ~round.called
       /\ \E outs \in [1..Len(models) -> ConsensusOutcomes] :
              Predict(Draws(10, 10, 0, "BIG"), outs)
    \/ /\ ~round.called
       /\ \E outs \in [1..Len(models) -> ConsensusOutcomes] :
              PredictPrototype(Draws(10, 10, 0, "BIG"), outs)
    \/ Return

SpecConsensus == InitConsensus /\ [][NextConsensus]_vars

-----------------------------------------------------------------------------
(* server.js with the predictions table: periods, the rows stored for them,
   the settle step and the timer of the background loop.  results[0] is the
   latest period, results[1] the one before; the prediction made while the
   latest period is L is stored for L + 1 and settled as results[1]. *)

MaxPeriods == 3

\* a row of the predictions table, or no row for the period
NoPrediction ==
    [stored |-> FALSE, prediction |-> "", model_id |-> "",
     contributors |-> Contributions(<<>>), status |-> ""]

\* the columns storePrediction writes from a decision:
\* chosenModel || 'ensemble' and contributing || []
StoredColumns(decision) ==
    [prediction |-> decision.prediction,
     model_id |-> IF decision.chosenModel = "null" THEN "ensemble"
                  ELSE decision.chosenModel,
     contributors |->
         Contributions([k \in 1..Len(decision.contributing) |->
                            Contribution(decision.contributing[k].id,
                                         decision.contributing[k].weight,
                                         decision.contributing[k].confidence)])]
NoColumns == [prediction |-> "", model_id |-> "", contributors |-> Contributions(<<>>)]

UpsertResetsStatus(db, period, columns) ==
    [db EXCEPT ![period] =
         [stored |-> TRUE, prediction |-> columns.prediction,
          model_id |-> columns.model_id, contributors |-> columns.contributors,
          status |-> "pending"]]
\* INSERT ... ON CONFLICT (period) DO UPDATE: a new row is 'pending', an
\* existing row keeps its status
Upsert(db, period, columns) ==
    [db EXCEPT ![period] =
         [stored |-> TRUE, prediction |-> columns.prediction,
          model_id |-> columns.model_id, contributors |-> columns.contributors,
          status |-> IF @.stored THEN @.status ELSE "pending"]]

\* SELECT ... WHERE period = $1 AND status = 'pending' returns a row
SelectPending(db, period) == db[period].stored /\ db[period].status = "pending"

\* the learning dispatch of lines 281-289 for a settled row
LearningDispatch(ms, row, isWin, streak) ==
    IF row.model_id # "ensemble"
    THEN ModelManager_learn_call("class", ms, row.model_id, isWin, Losses(streak), "ok")
    ELSE ModelManager_learnMultiple("class", ms, row.contributors, isWin,
                                    Losses(streak), "ok")

\* signals of a round: a clear top model, a close pair, and full agreement
PeriodSignal(prediction, confidence) ==
    Returns([prediction |-> prediction, confidence |-> confidence,
             patterns |-> <<Tag("a")>>, logic |-> "L"])
PeriodOuts(n) ==
    {[i \in 1..n |-> IF i = 1 THEN PeriodSignal("BIG", 80)
                     ELSE PeriodSignal("SMALL", 55)],
     [i \in 1..n |-> PeriodSignal("BIG", 80)]}

\* the decision of one predict call in the server
ServerDecision(ms, outs) ==
    StoredColumns(ModelManager_predict(ms, Draws(14, 6, 0, "BIG"), outs).decision)

NoSettle ==
    [period |-> 0, row |-> NoPrediction, isWin |-> FALSE, before |-> <<>>]

\* the state after startServer has called fetchAndProcess(): the first run
\* waits for fetchWingoData(), no timer is set, the table is empty
InitPeriods ==
    /\ models \in {DefaultRoster, Roster(3)}
    /\ round = [called |-> FALSE, kind |-> "periods",
                latest |-> 1, actual |-> [p \in 1..MaxPeriods |-> "BIG"],
                db |-> [p \in 1..(MaxPeriods + 1) |-> NoPrediction],
                loop |-> "fetching", results |-> 0, decision |-> NoColumns,
                isWin |-> FALSE, runs |-> 1, timers |-> 0, ranAt |-> 0,
                trade |-> "idle", tradeResults |-> 0, tradeDecision |-> NoColumns,
                consecutiveLosses |-> 0, failed |-> FALSE,
                learned |-> [p \in 1..MaxPeriods |-> 0], settle |-> NoSettle]

\* the run leaves fetchAndProcess without reaching the finally block
FinishedWithoutTimer(r) ==
    [r EXCEPT !.loop = "timer", !.runs = @ - 1, !.ranAt = r.results]
\* finally: if (fetchTimer) clearTimeout(fetchTimer); fetchTimer = setTimeout(...)
Finished(r) ==
    [r EXCEPT !.loop = "timer", !.runs = @ - 1, !.timers = Max(@ - 1, 0) + 1,
              !.ranAt = r.results]

\* the timer fires: a run starts and waits for fetchWingoData()
TimerFires ==
    /\ round.timers > 0
    /\ round' = [round EXCEPT !.timers = @ - 1, !.runs = @ + 1,
                              !.loop = "fetching", !.results = 0,
                              !.failed = FALSE]
    /\ UNCHANGED models

\* lines 205-221: no data (return), or the exists query is awaited
FpFetched(some) ==
    /\ round.loop = "fetching"
    /\ round' = IF some THEN [round EXCEPT !.loop = "checking",
                                           !.results = round.latest]
                ELSE Finished(round)
    /\ UNCHANGED models

\* lines 222-252: the next period has a row (return), or predict and await
\* storePrediction
FpChecked(outs) ==
    /\ round.loop = "checking"
    /\ round' = IF round.db[round.results + 1].stored THEN Finished(round)
                ELSE [round EXCEPT !.loop = "storing",
                                   !.decision = ServerDecision(models, outs)]
    /\ UNCHANGED models

\* storePrediction has written the row, or failed and returned null; lines
\* 255-263: with a previous period await the SELECT, else lines 296-306
FpStored(written) ==
    LET db == IF written THEN Upsert(round.db, round.results + 1, round.decision)
              ELSE round.db
    IN  /\ round.loop = "storing"
        /\ round' = IF round.results > 1
                    THEN [round EXCEPT !.db = db, !.loop = "selecting"]
                    ELSE Finished([round EXCEPT !.db = db])
        /\ UNCHANGED models

\* lines 265-274: a pending row of the previous period (isWin, await the
\* UPDATE), or none (lines 296-306)
FpSelected ==
    LET prev == round.results - 1
    IN  /\ round.loop = "selecting"
        /\ round' = IF SelectPending(round.db, prev)
                    THEN [round EXCEPT
                              !.loop = "updating",
                              !.isWin = round.db[prev].prediction = round.actual[prev]]
                    ELSE Finished(round)
        /\ UNCHANGED models

\* lines 269-306: the UPDATE has set the status; the streak, the learning
\* dispatch, the timer
FpSettled ==
    LET prev == round.results - 1
        row == round.db[prev]
        streak == IF round.isWin THEN 0 ELSE round.consecutiveLosses + 1
        effect == LearningDispatch(models, row, round.isWin, streak)
    IN  /\ round.loop = "updating"
        /\ models' = effect.models
        /\ round' = Finished([round EXCEPT
                         !.db[prev].status = IF round.isWin THEN "win" ELSE "loss",
                         !.consecutiveLosses = streak,
                         !.learned[prev] = @ + 1,
                         !.settle = [period |-> prev, row |-> row,
                                     isWin |-> round.isWin, before |-> models]])

\* an awaited pool.query rejects: catch (the error is logged), finally
FpAwaitFails ==
    /\ round.loop \in {"checking", "selecting", "updating"}
    /\ round' = Finished([round EXCEPT !.failed = TRUE])
    /\ UNCHANGED models

\* GET /trade arrives and waits for fetchWingoData()
TradeArrives ==
    /\ round.trade = "idle"
    /\ round' = [round EXCEPT !.trade = "fetching"]
    /\ UNCHANGED models

\* lines 317-377: no data (respond), or predict and await storePrediction
TradeFetched(some, outs) ==
    /\ round.trade = "fetching"
    /\ round' = IF some
                THEN [round EXCEPT !.trade = "storing",
                                   !.tradeResults = round.latest,
                                   !.tradeDecision = ServerDecision(models, outs)]
                ELSE [round EXCEPT !.trade = "idle"]
    /\ UNCHANGED models

\* storePrediction has written the row or failed; lines 379-384: respond
TradeStored(written) ==
    /\ round.trade = "storing"
    /\ round' = [round EXCEPT
                     !.trade = "idle",
                     !.db = IF written
                            THEN Upsert(@, round.tradeResults + 1, round.tradeDecision)
                            ELSE @]
    /\ UNCHANGED models

\* the lottery draws the next period's result
NewResult(resultType) ==
    /\ round.latest < MaxPeriods
    /\ round' = [round EXCEPT !.latest = @ + 1,
                              !.actual[round.latest + 1] = resultType]
    /\ UNCHANGED models

NextPeriods ==
    \/ TimerFires
    \/ \E some \in BOOLEAN : FpFetched(some)
    \/ \E outs \in PeriodOuts(Len(models)) : FpChecked(outs)
    \/ \E written \in BOOLEAN : FpStored(written)
    \/ FpSelected
    \/ FpSettled
    \/ FpAwaitFails
    \/ TradeArrives
    \/ \E some \in BOOLEAN, outs \in PeriodOuts(Len(models)) : TradeFetched(some, outs)
    \/ \E written \in BOOLEAN : TradeStored(written)
    \/ \E resultType \in {"BIG", "SMALL"} : NewResult(resultType)

SpecPeriods == InitPeriods /\ [][NextPeriods]_vars

-----------------------------------------------------------------------------
(* SpecOutcomes: learn calls on the two predictors with the outcomes of all
   calls kept.  A predictor first learns a fixed run of lookback - 2
   outcomes or none; then follow up to MaxOutcomeCalls calls of any kind. *)

MaxOutcomeCalls == 3

\* the k-th outcome of the fixed run: two wins, then a loss, repeated
RunOutcome(k) == k % 3 # 0
RunLength == lookback - 2

InitOutcomes ==
    /\ models = DefaultRoster
    /\ round = [called |-> FALSE, kind |-> "none", calls |-> 0,
                outcomes |-> [i \in 1..Len(DefaultRoster) |-> <<>>],
                predictor |-> 0, wasWin |-> FALSE, before |-> DefaultRoster]

\* the call models[i].learn(wasWin, options), with the outcome recorded
LearnOutcome(i, wasWin, options, calls) ==
    /\ models' = [models EXCEPT ![i] = Predictor_learn(@, wasWin, options)]
    /\ round' = [round EXCEPT !.kind = "learn", !.calls = calls,
                              !.outcomes[i] = Append(@, wasWin),
                              !.predictor = i, !.wasWin = wasWin,
                              !.before = models]

\* the next call of the fixed run on predictor i (one predictor at a time)
RunLearn(i) ==
    /\ round.calls = 0
    /\ Len(round.outcomes[i]) < RunLength
    /\ \A j \in 1..Len(models) : j # i => Len(round.outcomes[j]) \in {0, RunLength}
    /\ LearnOutcome(i, RunOutcome(Len(round.outcomes[i]) + 1), NoOptions, 0)

\* a call of any kind, once no fixed run is under way
OutcomeLearn(i, wasWin, options) ==
    /\ round.calls < MaxOutcomeCalls
    /\ \/ round.calls > 0
       \/ \A j \in 1..Len(models) : Len(round.outcomes[j]) \in {0, RunLength}
    /\ LearnOutcome(i, wasWin, options, round.calls + 1)

NextOutcomes ==
    \/ \E i \in 1..Len(models) : RunLearn(i)
    \/ \E i \in 1..Len(models), wasWin \in BOOLEAN,
          options \in {NoOptions, LrOption(2 * Scale), BadLrOption} :
           OutcomeLearn(i, wasWin, options)

SpecOutcomes == InitOutcomes /\ [][NextOutcomes]_vars

-----------------------------------------------------------------------------
(* SpecGain: learn calls on one predictor of either class, started from any
   weight in [minWeight, maxWeight] and any emaAccuracy in [0, 1] (states the
   rows loaded by init can set), with the learning rates of the calls summed *)

MaxGainCalls == 4

GainWeights ==
    {minWeight, Half, Scale, 2 * Scale, maxWeight - 1, maxWeight}
GainEmas == {0, Scale \div 10, Half, Scale}
GainCounters == {<<0, 0>>, <<8, 2>>}
\* options: none (lr 1.0), lr 0.05 (raised to 0.1), 0.1, 4.0, 10.0
GainOptions ==
    {NoOptions} \cup
    {LrOption(x) : x \in {Scale \div 20, Scale \div 10, 4 * Scale, 10 * Scale}}

InitGain ==
    \E i \in 1..2, w \in GainWeights, e \in GainEmas, c \in GainCounters :
        /\ models = <<[Roster(2)[i] EXCEPT !.weight = w, !.emaAccuracy = e,
                                           !.wins = c[1], !.losses = c[2]]>>
        /\ round = [called |-> FALSE, kind |-> "none", calls |-> 0,
                    start |-> w, lrSum |-> 0, wasWin |-> FALSE,
                    before |-> models]

\* models[1].learn(wasWin, options)
GainLearn(wasWin, options) ==
    /\ round.calls < MaxGainCalls
    /\ models' = [models EXCEPT ![1] = Predictor_learn(@, wasWin, options)]
    /\ round' = [round EXCEPT !.kind = "learn", !.calls = @ + 1,
                              !.lrSum = @ + LearnRate(options),
                              !.wasWin = wasWin, !.before = models]

NextGain == \E wasWin \in BOOLEAN, options \in GainOptions : GainLearn(wasWin, options)

SpecGain == InitGain /\ [][NextGain]_vars

-----------------------------------------------------------------------------
(* SpecOverlap: predict on the constructor's roster and on a roster of three,
   with signals that list up to two tags, each at most once *)

OverlapPatternLists ==
    {<<>>, <<Tag("a")>>, <<Tag("b")>>, <<Tag("a"), Tag("b")>>, <<Tag("b"), Tag("a")>>}

OverlapOutcomes ==
    {Returns([prediction |-> p, confidence |-> 80, patterns |-> tags,
              logic |-> "L"]) :
         p \in {"BIG", "SMALL"}, tags \in OverlapPatternLists} \cup {Throws}

InitOverlap ==
    /\ models \in {DefaultRoster, Roster(3)}
    /\ round = NoRound

NextOverlap ==
    \/ /\ ~round.called
       /\ \E outs \in [1..Len(models) -> OverlapOutcomes] :
              Predict(Draws(10, 10, 0, "BIG"), outs)
    \/ /\ ~round.called
       /\ \E outs \in [1..Len(models) -> OverlapOutcomes] :
              PredictPrototype(Draws(10, 10, 0, "BIG"), outs)
    \/ Return

SpecOverlap == InitOverlap /\ [][NextOverlap]_vars

(* SpecSettling: the server of SpecPeriods when every fetch and every query
   succeeds and the loop keeps running.  A period lasts a minute and the loop
   polls every three seconds: the next result appears only after a run of
   the loop has finished on the latest one.  The loop's steps, the steps of a
   /trade request under way and the lottery are weakly fair; whether a
   /trade request arrives is left open. *)

\* the lottery draws the next result after the loop has run on the latest
ResultAppears(resultType) ==
    /\ round.ranAt = round.latest
    /\ NewResult(resultType)

NextSettling ==
    \/ TimerFires
    \/ FpFetched(TRUE)
    \/ \E outs \in PeriodOuts(Len(models)) : FpChecked(outs)
    \/ FpStored(TRUE)
    \/ FpSelected
    \/ FpSettled
    \/ TradeArrives
    \/ \E outs \in PeriodOuts(Len(models)) : TradeFetched(TRUE, outs)
    \/ TradeStored(TRUE)
    \/ \E resultType \in {"BIG", "SMALL"} : ResultAppears(resultType)

\* an awaited call that succeeds resumes the function that awaits it.  The
\* two steps that call modelManager.predict are enabled exactly in the states
\* named below and leave them, so their weak fairness is that these states
\* are left again and again.
SpecSettling ==
    /\ InitPeriods
    /\ [][NextSettling]_vars
    /\ WF_vars(TimerFires)
    /\ WF_vars(FpFetched(TRUE))
    /\ []<>(round.loop # "checking")
    /\ WF_vars(FpStored(TRUE))
    /\ WF_vars(FpSelected)
    /\ WF_vars(FpSettled)
    /\ []<>(round.trade # "fetching")
    /\ WF_vars(TradeStored(TRUE))
    /\ WF_vars(\E resultType \in {"BIG", "SMALL"} : ResultAppears(resultType))

-----------------------------------------------------------------------------
(* SpecTwins: a KBTModel and an AIModel in the same learning state receive
   the same learn calls, one after the other. *)

MaxTwinCalls == 3

\* learning states a predictor reaches: new, after eight wins and two
\* losses, after a long losing run
TwinStarts ==
    {LearnRun(NewPredictor("KBT", "KBTModel"), outcomes) :
         outcomes \in {<<>>, EightWinsTwoLosses, LongLosingRun}}

\* options: none, lr 0.05 (below 0.1), lr 2.0, and an lr that is no number
TwinOptions ==
    {NoOptions, LrOption(Scale \div 20), LrOption(2 * Scale), BadLrOption}

\* the fields learn reads and writes
LearningState(m) ==
    [weight |-> m.weight, wins |-> m.wins, losses |-> m.losses,
     emaAccuracy |-> m.emaAccuracy, history |-> m.history]

InitTwins ==
    \E start \in TwinStarts :
        /\ models = <<start, [start EXCEPT !.id = "AI_FLONZA", !.cls = "AIModel"]>>
        /\ round = [called |-> FALSE, kind |-> "twins", calls |-> 0,
                    start |-> LearningState(start), used |-> {},
                    results |-> <<LearnResult(start), LearnResult(start)>>]

\* kbt.learn(wasWin, options); ai.learn(wasWin, options)
TwinLearn(wasWin, options) ==
    LET learnt == [i \in 1..2 |-> Predictor_learn(models[i], wasWin, options)]
    IN  /\ round.calls < MaxTwinCalls
        /\ models' = learnt
        /\ round' = [round EXCEPT !.called = TRUE, !.calls = @ + 1,
                                  !.used = @ \cup {options},
                                  !.results = [i \in 1..2 |-> LearnResult(learnt[i])]]

NextTwins == \E wasWin \in BOOLEAN, options \in TwinOptions : TwinLearn(wasWin, options)

SpecTwins == InitTwins /\ [][NextTwins]_vars

-----------------------------------------------------------------------------
----------------------------------------------------------------------------
(* What the claims speak of, read off the round's inputs *)

N == Len(models)

\* a round whose predict call returned a decision
RoundDone == round.called /\ ~round.threw

\* the signal that stands for predictor i in the round: its own, or the
\* neutral signal when its predict raised or returned nothing
Sig(i) == IF round.outs[i].kind = "signal" THEN round.outs[i].signal ELSE Neutral

BigVotes == Cardinality({i \in 1..N : Sig(i).prediction = "BIG"})
MajorityVotes == Max(BigVotes, N - BigVotes)
Majority == IF 2 * BigVotes > N THEN "BIG" ELSE "SMALL"

RECURSIVE TagCount(_)
TagCount(i) == IF i = 0 THEN 0 ELSE Len(Sig(i).patterns) + TagCount(i - 1)
TotalTags == TagCount(N)
DistinctTags ==
    Cardinality(UNION {{Sig(i).patterns[k] : k \in 1..Len(Sig(i).patterns)} :
                           i \in 1..N})

\* agreement > 0.75 and overlap = 1 - distinct/total > 0.6
ConsensusCondition ==
    /\ 4 * MajorityVotes > 3 * N
    /\ TotalTags > 0
    /\ 10 * (TotalTags - DistinctTags) > 6 * TotalTags

\* the score predict gives predictor i: confidence (50 when it is 0) x weight
ScoreOf(i) ==
    (IF Sig(i).confidence = 0 THEN 50 ELSE Sig(i).confidence) * models[i].weight
\* the score as the product confidence x weight
ProductScore(i) == Sig(i).confidence * models[i].weight

\* the first of the highest-scoring predictors, and the best of the others
TopBy(score, skip) ==
    CHOOSE i \in (1..N) \ skip :
        \A j \in (1..N) \ skip :
            score[i] > score[j] \/ (score[i] = score[j] /\ i <= j)
Scores == [i \in 1..N |-> ScoreOf(i)]
ProductScores == [i \in 1..N |-> ProductScore(i)]
Top == TopBy(Scores, {})
Second == TopBy(Scores, {Top})
Gap == ScoreOf(Top) - ScoreOf(Second)

\* the 20 most recent events of the round's history
Recent20 ==
    IF round.history.isArray
    THEN SubSeq(round.history.events, 1, Min(20, Len(round.history.events)))
    ELSE <<>>
BigRecent == Cardinality({k \in 1..Len(Recent20) : Recent20[k] = "BIG"})
\* the BIG fraction of Recent20 is > 0.6, is < 0.4, lies in [0.4, 0.6]
BiasHigh == Len(Recent20) > 0 /\ 10 * BigRecent > 6 * Len(Recent20)
BiasLow == Len(Recent20) > 0 /\ 10 * BigRecent < 4 * Len(Recent20)
BiasMiddle == ~BiasHigh /\ ~BiasLow

ContributorIds ==
    [k \in 1..Len(round.decision.contributing) |-> round.decision.contributing[k].id]

----------------------------------------------------------------------------
(* C1: from the default state, after any sequence of learn calls with any
   outcome and any learning-rate argument, every predictor's weight lies
   between minWeight and maxWeight. *)
C1_WeightBounded ==
    \A i \in 1..Len(models) :
        minWeight <= models[i].weight /\ models[i].weight <= maxWeight

\* a predictor of each class has learnt and sits on the upper clamp
C1_Witness ==
    \E i, j \in 1..Len(models) :
        /\ models[i].cls = "KBTModel" /\ models[j].cls = "AIModel"
        /\ models[i].wins + models[i].losses > 0
        /\ models[j].wins + models[j].losses > 0
        /\ models[i].weight = maxWeight
        /\ models[j].weight < maxWeight /\ models[j].weight > Scale

(* C2: from the default state (emaAccuracy 0.5), after any sequence of learn
   calls every predictor's emaAccuracy lies in [0, 1]. *)
C2_EmaBounded ==
    \A i \in 1..Len(models) :
        0 <= models[i].emaAccuracy /\ models[i].emaAccuracy <= Scale

\* both classes have learnt, one moved its EMA up and the other down
C2_Witness ==
    \E i, j \in 1..Len(models) :
        /\ models[i].cls = "KBTModel" /\ models[j].cls = "AIModel"
        /\ models[i].wins > 0 /\ models[i].emaAccuracy > Half
        /\ models[j].losses > 0 /\ models[j].emaAccuracy < Half

----------------------------------------------------------------------------
(* C3: every decision predict returns has confidence >= minConfidence, for
   every roster size and strategy; the confidence computed before the floor
   (round.raw) is raised to the floor when below it and kept otherwise. *)
C3_ConfidenceFloor ==
    RoundDone =>
        /\ round.decision.confidence >= minConfidence
        /\ round.decision.confidence = Max(minConfidence, round.raw)

\* a bias fallback computed 55 and the decision carries the floor, 65
C3_Witness ==
    /\ RoundDone /\ N >= 2
    /\ round.decision.chosenModel = "fallback"
    /\ round.raw = 55
    /\ round.decision.confidence = minConfidence

(* C4: with two or more predictors predict returns the consensus decision
   (chosenModel enhanced_ensemble, the majority's category, every predictor a
   contributor) exactly when agreement > 0.75 and pattern overlap > 0.6. *)
C4_ConsensusGating ==
    (RoundDone /\ N >= 2) =>
        /\ ConsensusCondition =>
              /\ round.decision.chosenModel = "enhanced_ensemble"
              /\ round.decision.prediction = Majority
              /\ Len(round.decision.contributing) = N
              /\ {ContributorIds[k] : k \in 1..N} = {models[i].id : i \in 1..N}
        /\ ~ConsensusCondition => round.decision.chosenModel # "enhanced_ensemble"

\* three predictors vote SMALL with one shared tag each: agreement 1, overlap 2/3
C4_Witness ==
    /\ RoundDone /\ N = 3
    /\ ConsensusCondition
    /\ BigVotes = 0
    /\ round.decision.chosenModel = "enhanced_ensemble"
    /\ round.decision.prediction = "SMALL"

(* C5 as stated: without consensus, with a top-two score gap below 15 and a
   BIG fraction above 0.6 on the last 20 events, predict returns BIG with
   confidence max(55, round(topConfidence - 10)); below 0.4, SMALL with the
   same confidence. *)
C5_FallbackAsStated ==
    (RoundDone /\ N >= 2 /\ ~ConsensusCondition /\ Gap < 15 * Scale) =>
        /\ BiasHigh => /\ round.decision.prediction = "BIG"
                       /\ round.decision.confidence =
                              Max(55, Sig(Top).confidence - 10)
        /\ BiasLow => /\ round.decision.prediction = "SMALL"
                      /\ round.decision.confidence =
                             Max(55, Sig(Top).confidence - 10)

(* C5 amended: the same, the confidence being
   max(minConfidence, max(55, round(topConfidence - 10))). *)
C5_FallbackFloored ==
    (RoundDone /\ N >= 2 /\ ~ConsensusCondition /\ Gap < 15 * Scale) =>
        /\ BiasHigh => /\ round.decision.prediction = "BIG"
                       /\ round.decision.confidence =
                              Max(minConfidence, Max(55, Sig(Top).confidence - 10))
        /\ BiasLow => /\ round.decision.prediction = "SMALL"
                      /\ round.decision.confidence =
                             Max(minConfidence, Max(55, Sig(Top).confidence - 10))

\* every predictor voted SMALL, the history is 14 BIG / 6 SMALL, the decision
\* is BIG with 80 - 10 = 70, after a learn call has moved a weight
C5_Witness ==
    /\ RoundDone /\ N >= 2 /\ Gap < 15 * Scale /\ BiasHigh
    /\ BigVotes = 0
    /\ \E i \in 1..N : models[i].weight # Scale
    /\ Sig(Top).confidence = 80
    /\ round.decision.prediction = "BIG"
    /\ round.decision.confidence = 70

(* C6 as stated: without consensus, with a top-two score gap below 15 and a
   BIG fraction in [0.4, 0.6] (0.5 for an empty history), predict returns the
   top-scoring predictor's category with confidence
   max(50, round(topConfidence - 12)). *)
C6_PenaltyAsStated ==
    (RoundDone /\ N >= 2 /\ ~ConsensusCondition /\ Gap < 15 * Scale /\ BiasMiddle) =>
        /\ round.decision.prediction = Sig(Top).prediction
        /\ round.decision.confidence = Max(50, Sig(Top).confidence - 12)

\* P1 { weight 1.0, BIG, 80 } and P2 { weight 1.0, BIG, 75 }, bias exactly 0.5
C6_Scenario ==
    /\ round.called /\ N = 2
    /\ models[1].weight = Scale /\ models[2].weight = Scale
    /\ round.outs[1].kind = "signal" /\ round.outs[2].kind = "signal"
    /\ Sig(1).prediction = "BIG" /\ Sig(1).confidence = 80
    /\ Sig(2).prediction = "BIG" /\ Sig(2).confidence = 75
    /\ Len(Recent20) > 0 /\ 2 * BigRecent = Len(Recent20)

(* C6 amended: the same, the confidence being
   max(minConfidence, max(50, round(topConfidence - 12))); in the scenario
   the decision is the top model's, BIG, with confidence 68. *)
C6_PenaltyFloored ==
    /\ (RoundDone /\ N >= 2 /\ ~ConsensusCondition /\ Gap < 15 * Scale /\ BiasMiddle) =>
          /\ round.decision.prediction = Sig(Top).prediction
          /\ round.decision.chosenModel = models[Top].id
          /\ round.decision.confidence =
                 Max(minConfidence, Max(50, Sig(Top).confidence - 12))
    /\ C6_Scenario =>
          /\ ~round.threw
          /\ round.decision.chosenModel = models[1].id
          /\ round.decision.prediction = "BIG"
          /\ round.decision.confidence = 68

\* the scenario has been played
C6_Witness ==
    /\ C6_Scenario
    /\ round.decision.confidence = 68

(* C7: without consensus and with score[0] - score[1] >= 15, the scores being
   signal confidence x predictor weight, predict returns the top-scoring
   predictor's category and confidence (raised to minConfidence when below)
   and names it as chosenModel, whatever the history. *)
C7_TopVerbatim ==
    (RoundDone /\ N >= 2 /\ ~ConsensusCondition) =>
        LET top == TopBy(ProductScores, {})
            second == TopBy(ProductScores, {top})
        IN  ProductScore(top) - ProductScore(second) >= 15 * Scale =>
                /\ round.decision.prediction = Sig(top).prediction
                /\ round.decision.confidence =
                       Max(minConfidence, Sig(top).confidence)
                /\ round.decision.chosenModel = models[top].id

(* C8: with exactly one predictor predict returns that predictor's category,
   its id as chosenModel and confidence max(minConfidence, signal
   confidence): { SMALL, 55 } gives { SMALL, 65 } whatever the history. *)
C8_SinglePredictor ==
    (RoundDone /\ N = 1) =>
        /\ round.decision.prediction = Sig(1).prediction
        /\ round.decision.chosenModel = models[1].id
        /\ round.decision.confidence = Max(minConfidence, Sig(1).confidence)

\* the single predictor says { SMALL, 55 } on a history of 14 BIG / 6 SMALL
C8_Witness ==
    /\ RoundDone /\ N = 1
    /\ round.outs[1].kind = "signal"
    /\ Sig(1).prediction = "SMALL" /\ Sig(1).confidence = 55
    /\ BiasHigh
    /\ round.decision.prediction = "SMALL"
    /\ round.decision.confidence = 65

(* C9: with an empty roster predict does not fail and returns the sentinel:
   category UNKNOWN, confidence minConfidence, no contributors. *)
C9_EmptyRosterSentinel ==
    (round.called /\ N = 0) =>
        /\ ~round.threw
        /\ round.decision.prediction = "UNKNOWN"
        /\ round.decision.confidence = minConfidence
        /\ round.decision.contributing = <<>>

\* the round with every predictor that raised or returned nothing replaced by
\* one that returns { BIG, 50 }
NeutralOuts ==
    [i \in 1..N |-> IF round.outs[i].kind = "signal" THEN round.outs[i]
                    ELSE Returns(Neutral)]

(* C10: when a predictor's predict raises or returns nothing, predict does
   not raise; it returns the decision it returns when that predictor answers
   { BIG, 50 }, and the predictor is listed as a contributor with BIG, 50. *)
C10_FaultSubstituted ==
    (round.called /\ \E i \in 1..N : round.outs[i].kind # "signal") =>
        /\ ~round.threw
        /\ round.decision \in
               {ModelManager_predict(models, round.history, NeutralOuts).decision,
                ModelManager_prototype_predict(models, round.history,
                                               NeutralOuts).decision}
        /\ round.decision.hasContributing =>
               \A i \in 1..N : round.outs[i].kind # "signal" =>
                   \E k \in 1..Len(round.decision.contributing) :
                       /\ round.decision.contributing[k].id = models[i].id
                       /\ round.decision.contributing[k].prediction = "BIG"
                       /\ round.decision.contributing[k].confidence = 50

\* the first predictor raised, the second returned { SMALL, 0 }: both score
\* 50 and the one that raised, first in the roster, is the decision's model
C10_Witness ==
    /\ RoundDone /\ N = 2
    /\ round.outs[1].kind = "throws"
    /\ round.outs[2].kind = "signal" /\ Sig(2).confidence = 0
    /\ Sig(2).prediction = "SMALL"
    /\ round.decision.chosenModel = models[1].id
    /\ round.decision.prediction = "BIG"

(* C11: KBTModel.predict and AIModel.predict never raise, and on a history
   that is no array, is empty or is shorter than the provider's minimum (3
   events for KBT, 10 for AI) they return exactly { BIG, 50 }. *)
C11_PredictorNeutral ==
    round.called =>
        /\ round.out.kind # "throws"
        /\ TooShort(round.history,
                    IF models[round.predictor].cls = "KBTModel" THEN 3 ELSE 10) =>
               /\ round.out.kind = "signal"
               /\ round.out.signal.prediction = "BIG"
               /\ round.out.signal.confidence = 50

\* the part of C11 the code keeps: on such a history nothing is raised and
\* the category is BIG
C11_ShortHistoryBig ==
    (round.called /\
     TooShort(round.history,
              IF models[round.predictor].cls = "KBTModel" THEN 3 ELSE 10)) =>
        /\ round.out.kind = "signal"
        /\ round.out.signal.prediction = "BIG"

\* KBTModel.predict raised on a history of three entries
C11_Raised ==
    /\ round.called
    /\ models[round.predictor].cls = "KBTModel"
    /\ Len(round.history.events) = 3
    /\ round.out.kind = "throws"

(* C12: one learn(wasWin, { lr }) call, lr >= 0.1 or absent (1.0), appends
   the outcome to the outcome history, increments wins or losses, sets
   emaAccuracy' from the incremented counters, then weight' from the updated
   emaAccuracy', and returns the new { wins, losses, weight, emaAccuracy };
   from wins = 8, losses = 2 a win moves emaAccuracy by (9/11 - previous) *
   0.05, to the precision of the fixed-point numbers. *)
C12_LearnOrder ==
    (round.kind = "learn" /\ round.options.type # "other"
     /\ (round.options.type = "number" => round.options.lr >= Scale \div 10)) =>
        LET b == round.before
            a == models[round.predictor]
            lr == IF round.options.type = "number" THEN round.options.lr ELSE Scale
            wins1 == b.wins + (IF round.wasWin THEN 1 ELSE 0)
            losses1 == b.losses + (IF round.wasWin THEN 0 ELSE 1)
            instant == (wins1 * Scale) \div (wins1 + losses1)
            ema1 == (b.emaAccuracy * (Scale - emaAlpha) + instant * emaAlpha)
                        \div Scale
            grown == (b.weight * PowDecay(lr)) \div Scale
                         + ((Scale + (ema1 - Half) \div 2) * lr) \div Scale
            weight1 == Max(minWeight, Min(maxWeight, grown))
            moved == Scale * (a.emaAccuracy - b.emaAccuracy)
            due == ((9 * Scale) \div 11 - b.emaAccuracy) * emaAlpha
        IN  /\ a.history = Append(b.history, IF round.wasWin THEN 1 ELSE 0)
            /\ a.wins = wins1 /\ a.losses = losses1
            /\ a.emaAccuracy = ema1
            /\ a.weight = weight1
            /\ round.returned = [wins |-> wins1, losses |-> losses1,
                                 weight |-> weight1, emaAccuracy |-> ema1]
            /\ (b.wins = 8 /\ b.losses = 2 /\ round.wasWin) =>
                   (moved - due < Scale /\ due - moved < Scale)

\* the scenario: a win recorded by a predictor that stood at wins 8, losses 2
C12_Witness ==
    /\ round.kind = "learn"
    /\ round.options.type = "absent"
    /\ round.before.wins = 8 /\ round.before.losses = 2 /\ round.wasWin
    /\ models[round.predictor].wins = 9
    /\ models[round.predictor].emaAccuracy > round.before.emaAccuracy

\* 1 + min(3, 0.4 * consecutiveLosses), a missing streak counting as 0
CreditRate(context) ==
    LET streak == IF context.has THEN context.consecutiveLosses ELSE 0
    IN  Scale + Min(3 * Scale, (4 * streak * Scale) \div 10)

\* the position in the roster before the call of the predictor named id, or 0
Known(id) ==
    IF \E i \in 1..Len(round.before) : round.before[i].id = id
    THEN CHOOSE i \in 1..Len(round.before) : round.before[i].id = id
    ELSE 0

(* C13: ModelManager.learn on a known id applies one Predictor.learn to that
   predictor, with lr = 1 + min(3, 0.4 * consecutiveLosses), and leaves the
   others as they were; lr is 1 for a streak of 0 or a missing one, never
   decreases as the streak grows and never exceeds 4. *)
C13_LearnOne ==
    (round.kind = "learn" /\ Known(round.target) # 0) =>
        LET i == Known(round.target)
            lr == CreditRate(round.context)
        IN  /\ ~round.threw
            /\ models[i] = Predictor_learn(round.before[i], round.wasWin, LrOption(lr))
            /\ models[i].wins + models[i].losses
                   = round.before[i].wins + round.before[i].losses + 1
            /\ \A j \in 1..Len(models) : j # i => models[j] = round.before[j]
            /\ Len(models) = Len(round.before)
            /\ lr >= Scale /\ lr <= 4 * Scale
            /\ (~round.context.has \/ round.context.consecutiveLosses = 0) => lr = Scale
            /\ \A c \in CreditContexts :
                   StreakOf(c) <= StreakOf(round.context) =>
                       ManagerLearnRate(StreakOf(c)) <= lr

\* a learn after nine consecutive losses: lr is 4 and one predictor has moved
C13_Witness ==
    /\ round.kind = "learn" /\ Known(round.target) # 0
    /\ round.context = Losses(9)
    /\ CreditRate(round.context) = 4 * Scale
    /\ models[Known(round.target)] # round.before[Known(round.target)]
    /\ \E j \in 1..Len(models) : models[j] = round.before[j]

\* weight * confidence of a contributor, the weight counted in hundredths
Product(c) == (c.weight \div 100) * c.confidence
RECURSIVE SumProducts(_, _)
SumProducts(items, k) ==
    IF k = 0 THEN 0 ELSE Product(items[k]) + SumProducts(items, k - 1)
\* the sum over all listed contributors, 1 standing in for a sum of zero
ProductTotal(items) ==
    IF SumProducts(items, Len(items)) = 0 THEN 1 ELSE SumProducts(items, Len(items))
\* baseLR * (0.2 + 0.8 * share) for share = Product(c) / ProductTotal(items)
CreditShareRate(context, c, items) ==
    (CreditRate(context)
        * (((2 * ProductTotal(items) + 8 * Product(c)) * 1000)
               \div ProductTotal(items))) \div Scale
\* the listed contributors whose id the roster knows, in the order listed
KnownEntries(items) == SelectSeq(items, LAMBDA c : Known(c.id) # 0)
\* how many entries of items name the predictor at position j
TimesNamed(items, j) ==
    Cardinality({k \in 1..Len(items) : Known(items[k].id) = j})

\* a learnMultiple call on a non-empty array that returned its results
CreditedList ==
    /\ round.kind = "learnMultiple"
    /\ ~round.isNull /\ ~round.threw

(* C14: in learnMultiple each contributor's share is weight * confidence over
   the sum of weight * confidence of all listed contributors (shares sum to
   1), and each contributor with a known id receives one learn with
   lr_i = baseLR * (0.2 + 0.8 * share_i), between 20% and 100% of
   baseLR = 1 + min(3, 0.4 * consecutiveLosses). *)
C14_ShareOfCredit ==
    CreditedList =>
        LET items == round.target.items
            known == KnownEntries(items)
        IN  /\ Len(round.value) = Len(known)
            /\ \A k \in 1..Len(known) :
                   /\ round.value[k].id = known[k].id
                   /\ round.value[k].lr = CreditShareRate(round.context, known[k], items)
                   /\ 5 * round.value[k].lr >= CreditRate(round.context)
                   /\ round.value[k].lr <= CreditRate(round.context)
            /\ \A j \in 1..Len(models) :
                   models[j].wins + models[j].losses
                       = round.before[j].wins + round.before[j].losses
                             + TimesNamed(items, j)

\* C14 on the calls in which no listed contributor has confidence 0
C14_NonZeroConfidence ==
    (CreditedList /\ \A k \in 1..Len(round.target.items) :
                         round.target.items[k].confidence # 0)
        => C14_ShareOfCredit

\* the legacy learnMultiple of kbt_models.js called with a pool whose query
\* throws: the one call whose persist step is not guarded (see C17)
UnguardedQueryThrows ==
    round.impl = "prototype" /\ round.kind = "learnMultiple" /\ round.pool = "throws"

(* C15: learn with an unknown id returns null and leaves every predictor as
   it was; learnMultiple does not raise on entries with unknown ids, skips
   them, updates the predictor of every entry with a known id and returns
   one result per known entry, in order. *)
C15_UnknownIdsSkipped ==
    /\ (round.kind = "learn" /\ Known(round.target) = 0) =>
           /\ round.isNull /\ ~round.threw
           /\ models = round.before
           /\ round.queries = <<>>
    /\ (round.kind = "learnMultiple" /\ round.target.isArray
        /\ Len(round.target.items) > 0 /\ ~UnguardedQueryThrows) =>
           LET items == round.target.items
               known == KnownEntries(items)
           IN  /\ ~round.threw /\ ~round.isNull
               /\ Len(round.value) = Len(known)
               /\ \A k \in 1..Len(known) : round.value[k].id = known[k].id
               /\ \A j \in 1..Len(models) :
                      /\ models[j].wins + models[j].losses
                             = round.before[j].wins + round.before[j].losses
                                   + TimesNamed(items, j)
                      /\ TimesNamed(items, j) = 0 => models[j] = round.before[j]

\* learnMultiple on an unknown id followed by a known one: one result, for
\* the known predictor, which has learnt
C15_Witness ==
    /\ round.kind = "learnMultiple" /\ round.target.isArray
    /\ Len(round.target.items) = 2
    /\ Known(round.target.items[1].id) = 0
    /\ Known(round.target.items[2].id) # 0
    /\ ~round.threw
    /\ Len(round.value) = 1
    /\ round.value[1].id = round.target.items[2].id
    /\ models # round.before

\* what the recorded call does on the same roster when no pool is configured
WithoutPool ==
    IF round.kind = "learn"
    THEN ModelManager_learn_call(round.impl, round.before, round.target,
                                 round.wasWin, round.context, "none")
    ELSE ModelManager_learnMultiple(round.impl, round.before, round.target,
                                    round.wasWin, round.context, "none")

\* the number of Predictor.learn calls the recorded call has made
LearnsMade ==
    IF round.isNull THEN 0
    ELSE IF round.kind = "learn" THEN 1 ELSE Len(round.value)

(* C17: a learn or learnMultiple call raises nothing and returns the same
   value and leaves the same predictor state whether no pool is configured,
   the persist query succeeds, rejects or throws; at most one query is
   issued per Predictor.learn (a failed persist is not retried). *)
C17_PersistenceNeutral ==
    round.kind \in {"learn", "learnMultiple"} =>
        /\ ~round.threw
        /\ models = WithoutPool.models
        /\ round.isNull = WithoutPool.isNull
        /\ round.value = WithoutPool.value
        /\ Len(round.queries) <= LearnsMade

\* C17 on every call but the legacy learnMultiple with a throwing query
C17_GuardedCalls ==
    (round.kind \in {"learn", "learnMultiple"} /\ ~UnguardedQueryThrows)
        => C17_PersistenceNeutral

\* the legacy learnMultiple raised after its first contributor had learnt
C17_Escaped ==
    /\ round.kind = "learnMultiple" /\ round.threw
    /\ Len(round.target.items) = 2
    /\ Known(round.target.items[1].id) # 0
    /\ Known(round.target.items[2].id) # 0
    /\ Known(round.target.items[1].id) # Known(round.target.items[2].id)
    /\ models[Known(round.target.items[1].id)]
           # round.before[Known(round.target.items[1].id)]
    /\ models[Known(round.target.items[2].id)]
           = round.before[Known(round.target.items[2].id)]

(* C16: a predict call changes no predictor (weight, wins, losses,
   emaAccuracy, outcome history) and not the roster order, and the decision
   it returns is the one predict returns when called again on the state it
   leaves, with the same history and the same signals from the predictors. *)
C16_PureRead ==
    [][(~round.called /\ round'.called) =>
           /\ models' = models
           /\ ~round'.threw =>
                  round'.decision \in
                      {ModelManager_predict(models', round'.history,
                                            round'.outs).decision,
                       ModelManager_prototype_predict(models', round'.history,
                                                      round'.outs).decision}]_vars

\* a predict call made after learn calls have moved a weight; the second
\* predictor of the roster scores higher and is the decision's model
C16_Witness ==
    /\ RoundDone /\ N = 2
    /\ \E i \in 1..N : models[i].wins + models[i].losses > 0
    /\ ScoreOf(2) > ScoreOf(1)
    /\ round.decision.chosenModel = models[2].id

-----------------------------------------------------------------------------
\* weight, emaAccuracy, wins and losses of every predictor of a roster
StatsOfRoster(ms) == [i \in 1..Len(ms) |-> LearnResult(ms[i])]

(* C18: weight, emaAccuracy, wins and losses of a predictor are changed only
   by a learn call; predict, init, persistModelStats and dumpModelState /
   stats leave them unchanged, so every predictor's weight lies between
   minWeight and maxWeight and its emaAccuracy between 0 and 1 in every
   reachable state. *)
C18_OnlyLearnChanges ==
    /\ (round.kind \notin {"none", "learn", "learnMultiple"}) =>
           StatsOfRoster(models) = StatsOfRoster(round.before)
    /\ \A i \in 1..Len(models) :
           /\ minWeight <= models[i].weight /\ models[i].weight <= maxWeight
           /\ 0 <= models[i].emaAccuracy /\ models[i].emaAccuracy <= Scale

\* the part of C18 the code keeps: predict, persistModelStats and
\* dumpModelState change no predictor, and init changes none without a pool,
\* with a pool whose query fails, or when no row names a predictor
C18_ReadsLeaveStats ==
    /\ (round.kind \in {"predict", "persistModelStats", "dumpModelState"}) =>
           models = round.before
    /\ (round.kind = "init" /\ round.value[2] # "ok") => models = round.before

\* init took a stored weight of 5.0 and the roster was then used by predict
C18_LoadedOutOfRange ==
    /\ round.kind = "predict"
    /\ \E i \in 1..Len(models) : models[i].weight > maxWeight

-----------------------------------------------------------------------------
(* C19: a predict round and a learn / learnMultiple update never interleave.
   The scores, reliabilities and contributor weights of a predict call are
   those of one roster state, the one the last completed learn or
   learnMultiple call left, and in no state of the server, with /trade
   requests overlapping the loop's settle step, does a predictor hold the
   counters or the EMA of a learn without its weight. *)
C19_ConsistentSnapshot ==
    /\ models = round.committed
    /\ round.reader # "none" =>
           \E outs \in LifecycleOuts :
               round.seen = Observed(round.snapshot, Draws(14, 6, 0, "BIG"), outs)

\* a /trade request was answered from the roster while the loop, having
\* learnt once, waits between the awaits of its next settle step, and the
\* query of the first learn's persistModelStats is still in flight
C19_Witness ==
    /\ round.reader = "trade"
    /\ round.trade = "storing"
    /\ round.loop = "updating"
    /\ round.settles > 0
    /\ round.inflight > 0
    /\ round.snapshot = models
    /\ StatsOfRoster(models) \notin {StatsOfRoster(ms) : ms \in SeasonedRosters}

-----------------------------------------------------------------------------
\* the predictor a contributor entry names, and the tags a decision carries
IndexOf(id) == FindModel(models, id)
CarriedTags ==
    {round.decision.patterns[k] : k \in 1..Len(round.decision.patterns)}
SignalTags(i) == {Sig(i).patterns[k] : k \in 1..Len(Sig(i).patterns)}

\* contributing: one entry per predictor with its id, prediction and
\* confidence, in descending order of score
ContributorsComplete ==
    LET c == round.decision.contributing
    IN  /\ round.decision.hasContributing
        /\ Len(c) = N
        /\ \A i \in 1..N : \E k \in 1..Len(c) : c[k].id = models[i].id
        /\ \A k \in 1..Len(c) :
               /\ c[k].prediction = Sig(IndexOf(c[k].id)).prediction
               /\ c[k].confidence = Sig(IndexOf(c[k].id)).confidence
        /\ \A k \in 1..(Len(c) - 1) :
               ScoreOf(IndexOf(c[k].id)) >= ScoreOf(IndexOf(c[k + 1].id))

(* C20: every decision predict produces from a non-empty roster, by
   consensus, top model or bias fallback, carries the pattern tags of all
   predictors' signals of the round and a contributor list with one entry per
   predictor in descending score order. *)
C20_TagsAndContributors ==
    (RoundDone /\ N >= 1) =>
        /\ \A i \in 1..N : SignalTags(i) \subseteq CarriedTags
        /\ ContributorsComplete

\* what the code keeps of C20: a decision that is not the bias fallback has
\* the complete contributor list and the tags of the top-scored predictor
C20_ExceptFallback ==
    (RoundDone /\ N >= 1 /\ round.decision.chosenModel # "fallback") =>
        /\ SignalTags(Top) \subseteq CarriedTags
        /\ ContributorsComplete

\* a bias-fallback decision: no tags, no contributor list, while a predictor
\* of the round had a tag
C20_FallbackBare ==
    /\ RoundDone
    /\ round.decision.chosenModel = "fallback"
    /\ ~round.decision.hasContributing
    /\ round.decision.patterns = <<>>
    /\ \E i \in 1..N : SignalTags(i) # {}

-----------------------------------------------------------------------------
\* reliability_i = clamp(weight_i * emaAccuracy_i * 2, 0, 1)
ClampedReliability(i) ==
    Min(Scale, Max(0, (models[i].weight * models[i].emaAccuracy * 2) \div Scale))

RECURSIVE SumReliability(_)
SumReliability(i) == IF i = 0 THEN 0 ELSE ClampedReliability(i) + SumReliability(i - 1)
RECURSIVE SumWeightedConfidence(_)
SumWeightedConfidence(i) ==
    IF i = 0 THEN 0
    ELSE Sig(i).confidence * ClampedReliability(i) + SumWeightedConfidence(i - 1)

\* 1 + 0.2 * agreement + 0.1 * overlap as the fraction FactorNum / FactorDen,
\* with agreement = MajorityVotes / N and overlap = 1 - DistinctTags / TotalTags
FactorNum ==
    10 * N * TotalTags + 2 * MajorityVotes * TotalTags + (TotalTags - DistinctTags) * N
FactorDen == 10 * N * TotalTags
FactorCapped == 10 * FactorNum > 13 * FactorDen

\* mean * min(1.3, factor), rounded and capped at 92, for the mean sum / den
EnhancedOf(sum, den) ==
    Min(92, IF FactorCapped THEN Round(sum * 13, den * 10)
            ELSE Round(sum * FactorNum, den * FactorDen))

RoundConsensus == RoundDone /\ round.decision.chosenModel = "enhanced_ensemble"

(* C21: on the consensus path the confidence computed for the decision is the
   reliability-weighted mean of the predictors' confidences, sum of
   confidence_i * reliability_i over the sum of reliability_i, times
   min(1.3, 1 + 0.2 * agreement + 0.1 * overlap), rounded and capped at 92. *)
C21_WeightedMean ==
    RoundConsensus =>
        round.raw = EnhancedOf(SumWeightedConfidence(N), SumReliability(N))

\* what the code computes: the sum is divided by the number of predictors
C21_DividedByCount ==
    RoundConsensus =>
        round.raw = EnhancedOf(SumWeightedConfidence(N), N * Scale)

\* a consensus round in which a predictor's reliability is below 1
C21_Unreliable ==
    /\ RoundConsensus
    /\ \E i \in 1..N : ClampedReliability(i) < Scale
    /\ round.raw < 92

-----------------------------------------------------------------------------
\* the settle step has resolved a pending prediction
Settled == round.settle.period > 0

\* predictor i holds exactly one more win (isWin) or one more loss than
\* before the settle step
GainedOne(i) ==
    LET b == round.settle.before[i]
    IN  /\ models[i].wins = b.wins + (IF round.settle.isWin THEN 1 ELSE 0)
        /\ models[i].losses = b.losses + (IF round.settle.isWin THEN 0 ELSE 1)

SettledTopModel == Settled /\ IndexOf(round.settle.row.model_id) # 0
SettledConsensus == Settled /\ round.settle.row.model_id = "enhanced_ensemble"

(* C22: when the settle step resolves a pending prediction, the predictors
   behind the decision learn the outcome: the chosen predictor of a
   top-model decision, and every listed contributor of a consensus decision,
   each gaining exactly one win or one loss. *)
C22_SettleCredits ==
    /\ SettledTopModel => GainedOne(IndexOf(round.settle.row.model_id))
    /\ SettledConsensus =>
           \A k \in 1..Len(round.settle.row.contributors.items) :
               GainedOne(IndexOf(round.settle.row.contributors.items[k].id))

\* the part the code keeps: the chosen predictor of a top-model decision
\* gains one win or loss, and no other predictor changes
C22_TopModelCredited ==
    SettledTopModel =>
        \A i \in 1..N :
            IF i = IndexOf(round.settle.row.model_id) THEN GainedOne(i)
            ELSE models[i] = round.settle.before[i]

\* a consensus decision with three contributors was settled and no predictor
\* learnt
C22_ConsensusUncredited ==
    /\ SettledConsensus
    /\ Len(round.settle.row.contributors.items) = 3
    /\ models = round.settle.before

-----------------------------------------------------------------------------
\* the outcomes predictor i has learnt, as 1 / 0, and the last k of them
Learnt10(i) ==
    [k \in 1..Len(round.outcomes[i]) |-> IF round.outcomes[i][k] THEN 1 ELSE 0]
LastOf(seq, k) == SubSeq(seq, Len(seq) - k + 1, Len(seq))
WinsLearnt(i) ==
    Cardinality({k \in 1..Len(round.outcomes[i]) : round.outcomes[i][k]})

(* C23: wins and losses never decrease; a learn call adds exactly 1 to wins
   when wasWin and to losses otherwise, so after n learn calls from the
   default state wins + losses = n, and the outcome history holds the last
   min(n, lookback) outcomes in order. *)
C23_CountersAndHistory ==
    /\ \A i \in 1..Len(models) :
           /\ models[i].wins = WinsLearnt(i)
           /\ models[i].wins + models[i].losses = Len(round.outcomes[i])
           /\ models[i].history =
                  LastOf(Learnt10(i), Min(Len(round.outcomes[i]), lookback))
           /\ models[i].wins >= round.before[i].wins
           /\ models[i].losses >= round.before[i].losses
    /\ round.kind = "learn" =>
           LET i == round.predictor
           IN  /\ models[i].wins =
                      round.before[i].wins + (IF round.wasWin THEN 1 ELSE 0)
               /\ models[i].losses =
                      round.before[i].losses + (IF round.wasWin THEN 0 ELSE 1)

\* a predictor has learnt more than lookback outcomes: its history is full
\* and the oldest outcome, a win, has been dropped for a loss at the end
C23_Witness ==
    \E i \in 1..Len(models) :
        /\ Len(round.outcomes[i]) > lookback
        /\ Len(models[i].history) = lookback
        /\ round.outcomes[i][1]
        /\ models[i].history[lookback] = 0
        /\ round.kind = "learn" /\ round.predictor = i

-----------------------------------------------------------------------------
\* the two top-scoring predictors of the round vote the same category
TopTwoAgree ==
    RoundDone /\ N >= 2 /\ Sig(Top).prediction = Sig(Second).prediction

(* C24: the small-gap policy (category replaced by the history bias, or 12
   subtracted from the confidence) applies only when the two top-scoring
   predictors disagree; when they vote the same category the decision has
   that category and the top predictor's confidence is not penalised. *)
C24_AgreementKeepsTop ==
    TopTwoAgree =>
        /\ round.decision.prediction = Sig(Top).prediction
        /\ round.decision.chosenModel # "enhanced_ensemble" =>
               round.raw = Sig(Top).confidence

\* the policy as coded: with a gap of 15 or more the top predictor's category
\* and confidence are taken, whether or not the two agree
C24_GapDecides ==
    (RoundDone /\ N >= 2 /\ Gap >= 15 * Scale
       /\ round.decision.chosenModel # "enhanced_ensemble") =>
        /\ round.decision.prediction = Sig(Top).prediction
        /\ round.raw = Sig(Top).confidence

\* both predictors voted SMALL and the decision is the bias fallback BIG
C24_AgreedOverridden ==
    /\ TopTwoAgree
    /\ Sig(Top).prediction = "SMALL"
    /\ round.decision.prediction = "BIG"
    /\ round.decision.chosenModel = "fallback"

-----------------------------------------------------------------------------
(* C25: a learn call never lowers a predictor's weight, whatever the outcome,
   the emaAccuracy and the learning rate (0.1 or more); maxWeight is
   absorbing; and the weight reaches maxWeight within a bounded number of
   calls regardless of the record: after calls whose learning rates sum to
   lrSum it is at least min(maxWeight, start + 0.7 * lrSum). *)
C25_WeightOnlyRises ==
    /\ models[1].weight >= round.before[1].weight
    /\ round.before[1].weight = maxWeight => models[1].weight = maxWeight
    /\ models[1].weight >= Min(maxWeight, round.start + (7 * round.lrSum) \div 10)
    /\ round.lrSum >= 4 * Scale => models[1].weight = maxWeight

\* a predictor whose emaAccuracy is below 0.5 lost a round and its weight
\* rose; it had started at minWeight and now carries maxWeight
C25_Witness ==
    /\ round.kind = "learn" /\ ~round.wasWin
    /\ models[1].emaAccuracy < Half
    /\ models[1].wins = 0
    /\ models[1].weight > round.before[1].weight
    /\ round.start = minWeight
    /\ models[1].weight = maxWeight

-----------------------------------------------------------------------------
\* the overlap predict computes in the round
RoundOverlap ==
    analyzePatternOverlap([i \in 1..N |-> ModelPred(models[i], round.outs[i])])

(* C26: the pattern overlap, 1 - distinct/total, is at most 1 - 1/n for n
   predictors whose signals each list a tag at most once, and not a number
   when no signal carries a tag; so with the default roster of two the
   overlap is at most 0.5 and predict never selects the consensus strategy,
   even when both predictors vote the same category with identical tags. *)
C26_OverlapBounded ==
    (RoundDone /\ N >= 1) =>
        /\ RoundOverlap.isNaN = (TotalTags = 0)
        /\ N * RoundOverlap.shared <= (N - 1) * RoundOverlap.all
        /\ N = 2 => /\ 2 * RoundOverlap.shared <= RoundOverlap.all
                    /\ round.decision.chosenModel # "enhanced_ensemble"

\* the default roster, both predictors voting BIG with the same two tags:
\* the overlap is exactly 0.5 and the decision is not the consensus
C26_Witness ==
    /\ RoundDone /\ N = 2
    /\ \A i \in 1..N : Sig(i).prediction = "BIG" /\ Len(Sig(i).patterns) = 2
    /\ DistinctTags = 2
    /\ 2 * RoundOverlap.shared = RoundOverlap.all
    /\ round.decision.chosenModel # "enhanced_ensemble"

-----------------------------------------------------------------------------
(* C28: the outcome of a period is applied to learning at most once.  Once
   the settle step has moved the period's row out of 'pending', no later run
   of the loop and no /trade request that upserts the row makes learn or
   learnMultiple run again for the period. *)
C28_SettledOnce ==
    \A p \in 1..MaxPeriods : round.learned[p] <= 1

\* period p was settled, a /trade request has since rewritten its row, and a
\* later run of the loop is at the SELECT for the same period again
C28_Witness ==
    \E p \in 1..MaxPeriods :
        /\ round.learned[p] = 1
        /\ round.settle.period = p
        /\ round.db[p].status \in {"win", "loss"}
        /\ round.db[p].model_id # round.settle.row.model_id
        /\ round.loop = "selecting"
        /\ round.results = p + 1

-----------------------------------------------------------------------------
(* C29: the background loop never overlaps itself and never stops: at most
   one fetchAndProcess run is in progress, and after every run, completed,
   returned early or failed with an exception, exactly one next run is
   scheduled and no second timer is pending. *)
C29_OneRunOneTimer ==
    /\ round.runs <= 1
    /\ round.timers <= 1
    /\ round.runs + round.timers = 1
    /\ (round.loop = "timer") = (round.runs = 0)

\* a run has failed with an exception after a period had been settled; no
\* run is in progress and one timer is pending
C29_Witness ==
    /\ round.failed
    /\ round.loop = "timer"
    /\ round.runs = 0 /\ round.timers = 1
    /\ Settled

-----------------------------------------------------------------------------
(* C27: every prediction row stored as pending for a period is eventually
   settled by the loop (its status becomes win or loss and the learning
   dispatch runs) once the period's result has appeared, whatever /trade
   requests interleave with the loop, when fetches and queries succeed and
   the loop keeps running.  Periods whose settling run lies within
   MaxPeriods are checked. *)
PendingFor(p) == SelectPending(round.db, p) /\ round.latest >= p
SettledFor(p) == round.db[p].status \in {"win", "loss"} /\ round.learned[p] = 1
C27_EventuallySettled ==
    \A p \in 2..(MaxPeriods - 1) : PendingFor(p) ~> SettledFor(p)

\* a run of the loop on the result after p's has finished, the row of the
\* period after that is stored, and p's row is still pending
SkippedFor(p) ==
    /\ SelectPending(round.db, p)
    /\ round.loop = "timer" /\ round.ranAt = p + 1
    /\ round.db[p + 2].stored

\* what the code does: the row is settled unless a run on the next result
\* has returned at line 224 because /trade had stored the row after it
C27_SettledUnlessSkipped ==
    \A p \in 2..(MaxPeriods - 1) : PendingFor(p) ~> (SettledFor(p) \/ SkippedFor(p))

\* a skipped row stays pending for ever
C27_SkippedStaysPending ==
    \A p \in 2..(MaxPeriods - 1) : [](SkippedFor(p) => [](~SettledFor(p)))

\* the row of the last period is skipped and the loop has nothing left to do
C27_Skipped == SkippedFor(MaxPeriods - 1) /\ round.latest = MaxPeriods

-----------------------------------------------------------------------------
(* C30: KBTModel.learn and AIModel.learn are the same update: two predictors
   of the two classes that start in the same learning state and receive the
   same calls (with no options, with lr below 0.1, with an lr that is no
   number, with a larger lr) return equal results and are in equal learning
   states after every call. *)
C30_SameUpdate ==
    /\ round.results[1] = round.results[2]
    /\ LearningState(models[1]) = LearningState(models[2])
    /\ round.results[1] = LearnResult(models[1])

\* all kinds of options have been used and the state has moved
C30_Witness ==
    /\ round.calls = MaxTwinCalls
    /\ {NoOptions, LrOption(Scale \div 20), BadLrOption} \subseteq round.used
    /\ models[1].cls = "KBTModel" /\ models[2].cls = "AIModel"
    /\ LearningState(models[2]) # round.start
    /\ round.results[2].weight > round.start.weight

====
